---- MODULE Spec2Model ----
(***************************************************************************)
(* The batch research pipeline of CodeCanvas: the job registry of app.py   *)
(* (start_research / run_research / cancel_task / cleanup_old_tasks) and   *)
(* the orchestrator of research_backend.py (research_keywords,             *)
(* search_google, get_whois_data, process_domain).                         *)
(*                                                                         *)
(* Scheduling is asyncio's: one thread, a coroutine runs from one await    *)
(* that suspends to the next, so every action below is the code between    *)
(* two suspension points (or a whole request handler).  CancelledError is  *)
(* a BaseException (Python >= 3.8): no `except Exception` catches it.      *)
(* Calls into the HTTP library (session construction, GET, POST, close)    *)
(* either return or raise; the upstream's answer is chosen by \E.          *)
(***************************************************************************)
EXTENDS Integers, Sequences, FiniteSets, TLC

\* ---- bounds of the model
MaxKeywords == 2
MaxDomains == 3
\* the jobs of the specification of the request handlers and the sweep
ApiKeywords == 1
ApiDomains == 1
\* the longest creation_date list of a WHOIS answer
MaxListLen == 2
\* the longest host of a URL in a search answer, in characters
MaxHostLen == 8

\* ---- program constants
\* faulty variant of max_retries: one retry more
FourRetries == 3 + 1

\* research_backend.py 161
max_retries == 3
\* research_backend.py 162
base_delay == 2
\* research_backend.py 307: asyncio.Semaphore(2)
SemaphoreSlots == 2

JobIds == {1}
CancelMsg == "Task cancelled by user"
Terminal == {"completed", "error", "cancelled"}
DomainName == <<"d1", "d2", "d3", "d4", "d5", "d6">>

VARIABLES
    research_tasks,         \* app.py:27  task_id -> entry (a function on the ids present)
    research_task_objects,  \* app.py:28  ids that have an asyncio.Task stored
    cancelled_event,        \* the asyncio.Event of each job (held by the closure too)
    request,                \* the ResearchRequest of each submitted job
    expired,                \* jobs whose created_at lies more than 3600 s back
    task,                   \* the run_research coroutine of each job: position and locals
    lookup,                 \* one get_whois_data / process_domain call observed alone
    search_call,            \* one search_google call observed alone
    reply,                  \* the response of the request handler that ran last
    terminal_expired,       \* jobs that reached a terminal status more than 3600 s back
    age_call,               \* one calculate_domain_age / process_domain evaluation
    extract_call,           \* one extract_domains evaluation
    filter_call             \* one apply_advanced_filter evaluation

vars == <<research_tasks, research_task_objects, cancelled_event, request, expired, task,
          lookup, search_call, reply, terminal_expired, age_call, extract_call, filter_call>>

Present(j) == j \in DOMAIN research_tasks
Submitted == DOMAIN task

Min(a, b) == IF a < b THEN a ELSE b
Max(a, b) == IF a > b THEN a ELSE b

\* ---- DomainData (research_backend.py 23-32)
DomainData(keyword, domain, creation_date, age_days, status, age_display) ==
    [keyword |-> keyword, domain |-> domain, creation_date |-> creation_date,
     age_days |-> age_days, status |-> status, age_display |-> age_display]

\* ---- upstream answers
\* a search answer: the HTTP outcome, and for a 200 the parsed body, given by the
\* number of distinct valid domains extract_domains finds in it (-1: a falsy body)
SearchAnswers ==
    [code : {"429", "500", "timeout", "error"}, ndomains : {0}]
      \cup [code : {"200"}, ndomains : -1 .. MaxDomains]

\* a WHOIS answer: the HTTP outcome, and for a 200 whether the body carries a
\* creation_date that parses ("date"), one that does not ("nodate"), or is falsy
WhoisAnswers ==
    [code : {"429", "403", "500", "timeout", "error"}, body : {"none"}]
      \cup [code : {"200"}, body : {"date", "nodate", "falsy"}]

\* a call as it stands once its first request is out
NewLookup ==
    [pc |-> "whois", attempt |-> 0, requests |-> 1, answers |-> <<>>,
     ret |-> "none", record |-> <<>>, delays |-> <<>>]

NewSearchCall ==
    [pc |-> "search_get", requests |-> 1, answers |-> <<>>, ret |-> "none"]

\* a response: the handler, the job id asked for, the HTTP status, the payload
Reply(op, j, code, body) == [op |-> op, id |-> j, code |-> code, body |-> body]

NoAgeCall == [pc |-> "idle"]
NoExtractCall == [pc |-> "idle"]
NoFilterCall == [pc |-> "idle"]

Init ==
    /\ lookup = NewLookup
    /\ search_call = NewSearchCall
    /\ reply = Reply("none", 0, 0, [detail |-> "none"])
    /\ terminal_expired = {}
    /\ age_call = NoAgeCall
    /\ extract_call = NoExtractCall
    /\ filter_call = NoFilterCall
    /\ research_tasks = <<>>
    /\ research_task_objects = {}
    /\ cancelled_event = <<>>
    /\ request = <<>>
    /\ expired = {}
    /\ task = <<>>

\* ---- start_research (app.py 94-177): the handler up to its return
NewEntry(n) ==
    [status |-> "starting", progress |-> 0, total |-> n, current_keyword |-> <<>>,
     results |-> <<>>, error |-> "None",
     domains_processed |-> -1, total_domains_estimated |-> -1]

NewTask ==
    [pc |-> "created", i |-> 0, results |-> <<>>, domain_tasks |-> <<>>,
     domain_semaphore |-> SemaphoreSlots, must_cancel |-> FALSE, exc |-> "none",
     search_ret |-> "none", exit_via |-> "none",
     session_fault |-> FALSE]

\* faulty variant of Extend: the new value replaces every value present
ExtendOverwriting(f, j, v) == [k \in DOMAIN f \cup {j} |-> v]

\* f[j] = v on a dict: the other keys keep their values
Extend(f, j, v) == [k \in DOMAIN f \cup {j} |-> IF k = j THEN v ELSE f[k]]

StartResearch(j, n, m) ==
    /\ j \notin Submitted
    /\ research_tasks' = Extend(research_tasks, j, NewEntry(n))
    /\ cancelled_event' = Extend(cancelled_event, j, FALSE)
    /\ request' = Extend(request, j, [keywords |-> n, max_domains_per_keyword |-> m])
    /\ task' = Extend(task, j, NewTask)
    /\ research_task_objects' = research_task_objects \cup {j}
    /\ reply' = Reply("start_research", j, 200, [task_id |-> j])
    /\ UNCHANGED <<expired, lookup, search_call, terminal_expired, age_call, extract_call, filter_call>>

\* ---- the job boundary of run_research (app.py 112-171)
Out(rt, t) == [rt |-> rt, t |-> t]

Finished(t, how) == [t EXCEPT !.pc = "done", !.exit_via = how, !.exc = "none"]

\* the frame of research_keywords is gone once control has left it
Left(t) == [t EXCEPT !.results = <<>>, !.domain_tasks = <<>>]

\* research_backend.py 60-63: leaving the `async with` block with `exc` in flight
AExit(t, exc) == [Left(t) EXCEPT !.pc = "session_close", !.exc = exc]

\* faulty variant of CancelCheckBeforeCommit: the flag is not looked at before the commit
NoLastLook(j) == FALSE

\* app.py 144: the last look at the flag before the results are committed
CancelCheckBeforeCommit(j) == cancelled_event[j]

\* faulty variant of CancelFlagAtBoundary: the handler does not read the flag
FlagNotRead(j) == FALSE

\* app.py 166: the flag as the `except Exception` handler reads it
CancelFlagAtBoundary(j) == cancelled_event[j]

\* app.py 143-160: research_keywords has returned `res`
ReturnToApp(j, rt, t, res) ==
    IF ~Present(j)
    THEN Out(rt, AExit(t, "KeyError"))
    ELSE IF CancelCheckBeforeCommit(j)
         THEN Out([rt EXCEPT ![j].status = "cancelled", ![j].error = CancelMsg],
                  AExit(t, "none"))
         ELSE Out([rt EXCEPT ![j].results = res, ![j].status = "completed"],
                  AExit(t, "none"))

\* app.py 162-164: `except asyncio.CancelledError`
BoundaryCancelled(j, rt, t) ==
    IF ~Present(j)
    THEN Out(rt, Finished(t, "crashed"))
    ELSE Out([rt EXCEPT ![j].status = "cancelled", ![j].error = CancelMsg],
             Finished(t, "cancelled_handler"))

\* app.py 165-171: `except Exception`
BoundaryException(j, rt, t) ==
    IF ~Present(j)
    THEN Out(rt, Finished(t, "crashed"))
    ELSE IF ~CancelFlagAtBoundary(j)
         THEN Out([rt EXCEPT ![j].status = "error", ![j].error = "exception"],
                  Finished(t, "exception_handler"))
         ELSE Out([rt EXCEPT ![j].status = "cancelled", ![j].error = CancelMsg],
                  Finished(t, "exception_handler"))

\* ---- research_keywords (research_backend.py 299-401)
\* faulty variant of MoreKeywords: the loop runs once more than there are keywords
MoreKeywordsOffByOne(j, i) == i <= request[j].keywords

\* 323: `for i, keyword in enumerate(keywords)`: there is a keyword of index i
MoreKeywords(j, i) == i < request[j].keywords

\* faulty variant of progress_callback: the keyword is counted from one
ProgressCountsFromOne(j, rt, current, message) ==
    [rt EXCEPT ![j].progress = current + 1, ![j].current_keyword = message]

\* app.py 125-126: progress_callback past its cancellation check
progress_callback(j, rt, current, message) ==
    [rt EXCEPT ![j].progress = current, ![j].current_keyword = message]

\* 323-334 and 397-401: control is at the head of the keyword loop, index i
LoopHead(j, rt, t, i, res) ==
    IF MoreKeywords(j, i)
    THEN IF cancelled_event[j]
         THEN Out(rt, AExit([t EXCEPT !.i = i, !.results = res], "CancelledError"))
         ELSE Out(progress_callback(j, rt, i, <<"Processing keyword", i + 1>>),
                  [t EXCEPT !.pc = "search_get", !.i = i, !.results = res,
                            !.domain_tasks = <<>>])
    ELSE IF ~cancelled_event[j]
         THEN ReturnToApp(j, progress_callback(j, rt, request[j].keywords,
                                               <<"Research completed!">>),
                          [t EXCEPT !.i = i, !.results = res, !.domain_tasks = <<>>], res)
         ELSE ReturnToApp(j, rt, [t EXCEPT !.i = i, !.results = res,
                                           !.domain_tasks = <<>>], res)

\* faulty variant of SliceLen: every extracted domain is taken
TakeAll(d, m) == d

\* faulty variant of SliceLen: the slice is one element too long
TakeOneMore(d, m) == IF d < m + 1 THEN d ELSE m + 1

\* list(domains)[:max_domains_per_keyword] (355): how many of d domains are taken
SliceLen(d, m) == IF m >= 0 THEN Min(d, m) ELSE Max(0, d + m)

NewChild ==
    [pc |-> "new", attempt |-> 0, result |-> <<>>, cancel |-> FALSE]

\* faulty variant of SearchFailed: age 0 in place of the -1 marker
SearchFailedZeroAge(k) == DomainData(k, "N/A", "N/A", 0, "Search Failed", <<>>)

SearchFailed(k) == DomainData(k, "N/A", "N/A", -1, "Search Failed", <<>>)
NoDomainsFound(k) == DomainData(k, "N/A", "N/A", -1, "No Domains Found", <<>>)
KeywordError(k) == DomainData(k, "N/A", "N/A", -1, "Keyword Error", <<>>)

\* what search_google gave back, as the loop body tells the cases apart (340, 348)
SearchRet(v, d) ==
    IF v = "body"
    THEN (IF d = -1 THEN "falsy" ELSE IF d = 0 THEN "no domains" ELSE "domains")
    ELSE v

\* faulty variant of RecordAndContinue: the failure is raised, not recorded
RaiseInsteadOfRecord(j, rt, t, rec) == Out(rt, AExit(t, "Exception"))

\* 341-343 and 349-351: the record is appended and the loop continues
RecordAndContinue(j, rt, t, rec) == LoopHead(j, rt, t, t.i + 1, Append(t.results, rec))

\* 336-360 and 383-388: search_google has returned v ("None", "body", or "raise"
\* when it raised), the body holding d domains
AfterSearch(j, rt, t0, v, d) ==
    LET t == [t0 EXCEPT !.search_ret = SearchRet(v, d)]
        k == t.i + 1
    IN  IF v = "raise"
        THEN LoopHead(j, rt, t, t.i + 1, Append(t.results, KeywordError(k)))
        ELSE IF cancelled_event[j]
        THEN Out(rt, AExit(t, "CancelledError"))
        ELSE IF v = "None" \/ d = -1
        THEN RecordAndContinue(j, rt, t, SearchFailed(k))
        ELSE IF d = 0
        THEN RecordAndContinue(j, rt, t, NoDomainsFound(k))
        ELSE LET n == SliceLen(d, request[j].max_domains_per_keyword)
             IN  IF n = 0
                 THEN Out(rt, [t EXCEPT !.pc = "keyword_delay"])
                 ELSE Out(rt, [t EXCEPT !.pc = "gather",
                                        !.domain_tasks = [c \in 1 .. n |-> NewChild]])

\* faulty variant of SearchFirst: a timeout is retried like a 429
SearchFirstRetryTimeout(a) ==
    CASE a.code = "200" -> "body"
      [] a.code \in {"429", "timeout"} -> "retry"
      [] OTHER -> "None"

\* faulty variant of SearchFirst: an exception of the request escapes the call
SearchFirstRaises(a) ==
    CASE a.code = "200" -> "body"
      [] a.code = "429" -> "retry"
      [] a.code = "error" -> "raise"
      [] OTHER -> "None"

\* ---- search_google (research_backend.py 65-99)
\* what the first response leads to: a value returned, a retry, or a raise
SearchFirst(a) ==
    CASE a.code = "200" -> "body"
      [] a.code = "429" -> "retry"
      [] a.code = "timeout" -> "None"
      [] a.code = "error" -> "None"
      [] OTHER -> "None"

\* what the response to the retry leads to (85-90, 94-99)
SearchRetry(a) ==
    CASE a.code = "200" -> "body"
      [] OTHER -> "None"

\* ---- get_whois_data (research_backend.py 146-200)
Return(v) == [kind |-> "return", value |-> v]
Sleep == [kind |-> "sleep", value |-> "none"]

\* faulty variant of WhoisStep: a 403 is retried like a 429
WhoisStepRetry403(attempt, a) ==
    CASE a.code = "200" -> Return(a.body)
      [] a.code \in {"429", "403", "timeout"} ->
            IF attempt < max_retries THEN Sleep ELSE Return("None")
      [] OTHER -> Return("None")

\* 166-198: what the response to attempt number `attempt` (0-based) leads to
WhoisStep(attempt, a) ==
    CASE a.code = "200" -> Return(a.body)
      [] a.code = "429" -> IF attempt < max_retries THEN Sleep ELSE Return("None")
      [] a.code = "403" -> Return("None")
      [] a.code = "timeout" -> IF attempt < max_retries THEN Sleep ELSE Return("None")
      [] a.code = "error" -> Return("None")
      [] OTHER -> Return("None")

\* faulty variant of Delay: the delay grows by base_delay with every retry
DelayLinear(attempt) == base_delay * (attempt + 1)

\* 173, 189: the seconds slept after the answer to attempt number `attempt`
Delay(attempt) == base_delay * (2 ^ attempt)

\* 164: `for attempt in range(max_retries + 1)`: is there an attempt after this one
HasNextAttempt(attempt) == attempt + 1 < max_retries + 1

\* ---- dates and times, to the hour (datetime arithmetic of 241-249)
DateTime(y, m, d, h) == [y |-> y, m |-> m, d |-> d, h |-> h]

IsLeap(y) == (y % 4 = 0) /\ ((y % 100 # 0) \/ (y % 400 = 0))

DaysBeforeYear(y) == (y - 1) * 365 + (y - 1) \div 4 - (y - 1) \div 100 + (y - 1) \div 400

DaysBeforeMonth(y, m) ==
    <<0, 31, 59, 90, 120, 151, 181, 212, 243, 273, 304, 334>>[m]
      + (IF m > 2 /\ IsLeap(y) THEN 1 ELSE 0)

\* the proleptic Gregorian ordinal of the date of dt
Ordinal(dt) == DaysBeforeYear(dt.y) + DaysBeforeMonth(dt.y, dt.m) + dt.d

HoursOf(dt) == Ordinal(dt) * 24 + dt.h

\* faulty variant of DeltaDays: the times of day are left out
DeltaDaysByDate(a, b) == Ordinal(a) - Ordinal(b)

\* 248-249: (a - b).days, the whole days of the difference, rounded down
DeltaDays(a, b) == (HoursOf(a) - HoursOf(b)) \div 24

\* ---- the creation_date strings of a WHOIS answer: the form of the text, the
\* date and time written in it, and the UTC offset in hours it ends with
DateString(form, dt, tz) == [form |-> form, dt |-> dt, tz |-> tz]
Unparseable == DateString("garbage", DateTime(1, 1, 1, 0), 0)
EmptyString == DateString("empty", DateTime(1, 1, 1, 0), 0)

\* 227-239: dateutil's parser, then the two strptime formats; <<>> when all fail.
\* A date without a time parses to midnight; an offset becomes the tzinfo.
ParseDate(str) ==
    CASE str.form = "datetime" -> <<[dt |-> str.dt, tzinfo |-> <<>>]>>
      [] str.form = "date" -> <<[dt |-> [str.dt EXCEPT !.h = 0], tzinfo |-> <<>>]>>
      [] str.form = "offset" -> <<[dt |-> str.dt, tzinfo |-> <<str.tz>>]>>
      [] OTHER -> <<>>

\* 244-245: replace(tzinfo=None) drops the offset and keeps the wall-clock fields
MakeNaive(parsed) == parsed.dt

Pad2(n) == IF n < 10 THEN "0" \o ToString(n) ELSE ToString(n)

\* 256: strftime("%Y-%m-%d %H:%M:%S")
strftime(dt) ==
    ToString(dt.y) \o "-" \o Pad2(dt.m) \o "-" \o Pad2(dt.d) \o " " \o Pad2(dt.h) \o ":00:00"

\* ---- the JSON body of a WHOIS answer, by the cases the code tells apart:
\* kind "falsy" (null, {}, 0), "number" (a truthy number or boolean),
\* "noresult" (an object without 'result'), "badresult" ('result' is not an
\* object), "result" with the value of result.get('creation_date')
Json(kind, creation_date_raw) == [kind |-> kind, creation_date |-> creation_date_raw]

\* 209: creation_date_raw is None (the key is absent), a string, or a list of
\* strings; `items` holds the string, or the elements of the list in order
Raw(kind, items) == [kind |-> kind, items |-> items]
Absent == Raw("absent", <<>>)
OneString(str) == Raw("string", <<str>>)
List(items) == Raw("list", items)

NoResult(kind) == Json(kind, Absent)

\* 211, 223: `not x` for None, an empty string, an empty list
Falsy(raw) ==
    \/ raw.kind = "absent"
    \/ raw.kind = "list" /\ raw.items = <<>>
    \/ raw.kind = "string" /\ raw.items[1].form = "empty"

\* faulty variant of CreationDateStr: the last element of a list is taken
CreationDateStrLast(raw) == raw.items[Len(raw.items)]

\* 216-221: the first element of a list, a string as it is
CreationDateStr(raw) == raw.items[1]

Returned(creation_date, age_days) ==
    [kind |-> "return", creation_date |-> creation_date, age_days |-> age_days]
NoneNone == [kind |-> "return", creation_date |-> "None", age_days |-> -1]
Raised == [kind |-> "raise", creation_date |-> "None", age_days |-> -1]

\* ---- calculate_domain_age (202-269) at the time current_date: the pair
\* returned, NoneNone for (None, None), or Raised when line 204 raises
calculate_domain_age(whois_data, current_date) ==
    IF whois_data.kind = "falsy" THEN NoneNone
    ELSE IF whois_data.kind = "number" THEN Raised
    ELSE IF whois_data.kind \in {"noresult", "badresult"} THEN NoneNone
    ELSE IF Falsy(whois_data.creation_date) THEN NoneNone
    ELSE LET creation_date_str == CreationDateStr(whois_data.creation_date)
             parsed == ParseDate(creation_date_str)
         IN  IF creation_date_str.form = "empty" \/ parsed = <<>>
             THEN NoneNone
             ELSE LET creation_date == MakeNaive(parsed[1])
                  IN  Returned(strftime(creation_date),
                               DeltaDays(current_date, creation_date))

\* 285-291: the display string, as <<years, days>> or <<days>>
AgeDisplay(age_days) ==
    IF age_days \div 365 > 0 THEN <<age_days \div 365, age_days % 365>> ELSE <<age_days>>

\* what get_whois_data gave back: it raised, returned None, or returned a body
WhoisRaised == [kind |-> "raise", data |-> NoResult("falsy")]
WhoisNone == [kind |-> "None", data |-> NoResult("falsy")]
WhoisBody(data) == [kind |-> "json", data |-> data]

\* ---- process_domain (271-297) once get_whois_data has ended with ret
process_domain(k, domain, ret, current_date) ==
    IF ret.kind = "raise"
    THEN DomainData(k, domain, "N/A", -1, "Error", <<>>)
    ELSE IF ret.kind = "None" \/ ret.data.kind = "falsy"
    THEN DomainData(k, domain, "N/A", -1, "WHOIS Failed", <<>>)
    ELSE LET age == calculate_domain_age(ret.data, current_date)
         IN  IF age.kind = "raise"
             THEN DomainData(k, domain, "N/A", -1, "Error", <<>>)
             ELSE IF age.creation_date # "None"
             THEN DomainData(k, domain, age.creation_date, age.age_days, "Success",
                             AgeDisplay(age.age_days))
             ELSE DomainData(k, domain, "N/A", -1, "Age Calculation Failed", <<>>)

\* the clock of the job registry's runs
ClockNow == DateTime(2025, 9, 15, 0)

\* the bodies the lookups of a job are answered with, as JSON
RegisteredSince1997 ==
    Json("result", OneString(DateString("datetime", DateTime(1997, 9, 15, 4), 0)))

\* the value a lookup of a job ended with: "raise", "None", or the name of a body
WhoisValue(v) ==
    CASE v = "raise" -> WhoisRaised
      [] v = "None" -> WhoisNone
      [] v = "falsy" -> WhoisBody(NoResult("falsy"))
      [] v = "date" -> WhoisBody(RegisteredSince1997)
      [] OTHER -> WhoisBody(Json("result", OneString(Unparseable)))

\* ---- process_domain_with_semaphore (309-321), one asyncio task per selected domain
InsideSemaphore(ch) == ch.pc \in {"whois", "backoff", "pace"}
ChildOver(ch) == ch.pc \in {"done", "cancelled"}

\* 166: the POST is issued
Post(ch) == [ch EXCEPT !.pc = "whois"]

\* faulty variant of SlotFree: no slot is ever handed out
SlotNeverFree(sem) == FALSE

\* faulty variant of SlotFree: acquire never waits
SlotAlwaysFree(sem) == TRUE

\* asyncio.Semaphore.acquire without waiting: a slot is free
SlotFree(sem) == sem > 0

\* a lookup that ended in CancelledError: its frame and result are gone
CancelledChild == [pc |-> "cancelled", attempt |-> 0, result |-> <<>>, cancel |-> FALSE]

SetChild(j, c, ch) == [task EXCEPT ![j].domain_tasks[c] = ch]

\* the task's first step: 311-316 up to the POST, or up to the wait for a slot
ChildStart(j, c) ==
    LET t == task[j]
        ch == t.domain_tasks[c]
    IN  /\ ch.pc = "new" /\ ~ch.cancel
        /\ \A b \in 1 .. c - 1 : t.domain_tasks[b].pc # "new"
        /\ task' =
             IF cancelled_event[j]
             THEN SetChild(j, c, CancelledChild)
             ELSE IF SlotFree(t.domain_semaphore)
             THEN [task EXCEPT ![j].domain_tasks[c] = Post(ch),
                               ![j].domain_semaphore = @ - 1]
             ELSE SetChild(j, c, [ch EXCEPT !.pc = "waitsem"])
        /\ UNCHANGED <<research_tasks, research_task_objects, cancelled_event,
                       request, expired, lookup, search_call, reply, terminal_expired, age_call, extract_call, filter_call>>

\* a waiter is woken by a release (waiters are served first come first served)
ChildAcquire(j, c) ==
    LET t == task[j]
        ch == t.domain_tasks[c]
    IN  /\ ch.pc = "waitsem" /\ ~ch.cancel
        /\ SlotFree(t.domain_semaphore)
        /\ \A b \in 1 .. c - 1 : t.domain_tasks[b].pc # "waitsem"
        /\ task' = [task EXCEPT ![j].domain_tasks[c] = Post(ch),
                                ![j].domain_semaphore = @ - 1]
        /\ UNCHANGED <<research_tasks, research_task_objects, cancelled_event,
                       request, expired, lookup, search_call, reply, terminal_expired, age_call, extract_call, filter_call>>

\* the POST of a lookup is answered (166-198); on a return, 277-297, then
\* domain_progress_callback (app.py 128-132) and the 0.5 s delay (320)
WhoisResponse(j, c, a) ==
    LET t == task[j]
        ch == t.domain_tasks[c]
        step == WhoisStep(ch.attempt, a)
        rec == process_domain(t.i + 1, DomainName[c], WhoisValue(step.value), ClockNow)
    IN  /\ ch.pc = "whois" /\ ~ch.cancel
        /\ \A b \in DOMAIN t.domain_tasks : t.domain_tasks[b].pc # "new"
        /\ IF step.kind = "sleep"
           THEN /\ task' = SetChild(j, c, [ch EXCEPT !.pc = "backoff"])
                /\ UNCHANGED research_tasks
           ELSE IF cancelled_event[j]
           THEN /\ task' = [task EXCEPT ![j].domain_tasks[c] =
                                           [ch EXCEPT !.pc = "cancelled", !.attempt = 0],
                                        ![j].domain_semaphore = @ + 1]
                /\ UNCHANGED research_tasks
           ELSE /\ task' = SetChild(j, c, [ch EXCEPT !.pc = "pace", !.attempt = 0,
                                                     !.result = <<rec>>])
                /\ research_tasks' = [research_tasks EXCEPT ![j].domains_processed = @ + 1]
        /\ UNCHANGED <<research_task_objects, cancelled_event, request, expired, lookup, search_call, reply, terminal_expired, age_call, extract_call, filter_call>>

\* the backoff delay is over (175-176, 191-192): the next attempt, if the loop has one
BackoffDone(j, c) ==
    LET t == task[j]
        ch == t.domain_tasks[c]
    IN  /\ ch.pc = "backoff" /\ ~ch.cancel
        /\ IF HasNextAttempt(ch.attempt)
           THEN /\ task' = SetChild(j, c, Post([ch EXCEPT !.attempt = @ + 1]))
                /\ UNCHANGED research_tasks
           ELSE IF cancelled_event[j]
           THEN /\ task' = [task EXCEPT ![j].domain_tasks[c] =
                                           [ch EXCEPT !.pc = "cancelled", !.attempt = 0],
                                        ![j].domain_semaphore = @ + 1]
                /\ UNCHANGED research_tasks
           ELSE /\ task' = SetChild(j, c,
                             [ch EXCEPT !.pc = "pace", !.attempt = 0,
                                        !.result = <<process_domain(t.i + 1, DomainName[c], WhoisValue("None"), ClockNow)>>])
                /\ research_tasks' = [research_tasks EXCEPT ![j].domains_processed = @ + 1]
        /\ UNCHANGED <<research_task_objects, cancelled_event, request, expired, lookup, search_call, reply, terminal_expired, age_call, extract_call, filter_call>>

\* the 0.5 s delay is over (320-321): the slot is released, the result returned
PaceDone(j, c) ==
    LET t == task[j]
        ch == t.domain_tasks[c]
    IN  /\ ch.pc = "pace" /\ ~ch.cancel
        /\ task' = [task EXCEPT ![j].domain_tasks[c] = [ch EXCEPT !.pc = "done"],
                                ![j].domain_semaphore = @ + 1]
        /\ UNCHANGED <<research_tasks, research_task_objects, cancelled_event,
                       request, expired, lookup, search_call, reply, terminal_expired, age_call, extract_call, filter_call>>

\* CancelledError is thrown into a lookup whose cancellation was requested; the
\* `async with` releases the slot on the way out
ChildCancelled(j, c) ==
    LET t == task[j]
        ch == t.domain_tasks[c]
    IN  /\ ch.cancel /\ ~ChildOver(ch)
        /\ \A b \in 1 .. c - 1 : ~(t.domain_tasks[b].cancel /\ ~ChildOver(t.domain_tasks[b]))
        /\ task' = [task EXCEPT ![j].domain_tasks[c] = CancelledChild,
                                ![j].domain_semaphore =
                                    IF InsideSemaphore(ch) THEN @ + 1 ELSE @]
        /\ UNCHANGED <<research_tasks, research_task_objects, cancelled_event,
                       request, expired, lookup, search_call, reply, terminal_expired, age_call, extract_call, filter_call>>

\* ---- the steps of the run_research task itself
Apply(j, o) ==
    /\ research_tasks' = o.rt
    /\ task' = [task EXCEPT ![j] = o.t]
    /\ UNCHANGED <<research_task_objects, cancelled_event, request, expired, lookup, search_call, reply, terminal_expired, age_call, extract_call, filter_call>>

\* the first step (app.py 113-141): the entry is marked running, the session is
\* opened (research_backend.py 54-58), and research_keywords runs to its first await
TaskStart(j, open_fails) ==
    LET t == task[j]
        rt == [research_tasks EXCEPT
                 ![j].status = "running",
                 ![j].domains_processed = 0,
                 ![j].total_domains_estimated =
                     request[j].keywords * request[j].max_domains_per_keyword]
    IN  /\ t.pc = "created"
        /\ Present(j)
        /\ IF open_fails
           THEN Apply(j, BoundaryException(j, rt, [t EXCEPT !.session_fault = TRUE]))
           ELSE Apply(j, LoopHead(j, rt, t, 0, <<>>))

\* the GET of search_google is answered (79-99)
SearchResponse(j, a) ==
    LET t == task[j]
        v == SearchFirst(a)
    IN  /\ t.pc = "search_get" /\ ~t.must_cancel
        /\ IF v = "retry"
           THEN Apply(j, Out(research_tasks, [t EXCEPT !.pc = "search_sleep"]))
           ELSE Apply(j, AfterSearch(j, research_tasks, t, v, a.ndomains))

\* the 2 s delay after a 429 is over (84-85): the GET is issued again
SearchSleepDone(j) ==
    LET t == task[j]
    IN  /\ t.pc = "search_sleep" /\ ~t.must_cancel
        /\ Apply(j, Out(research_tasks,
                        [t EXCEPT !.pc = "search_retry"]))

\* the second GET is answered (85-90)
SearchRetryResponse(j, a) ==
    LET t == task[j]
    IN  /\ t.pc = "search_retry" /\ ~t.must_cancel
        /\ Apply(j, AfterSearch(j, research_tasks, t, SearchRetry(a), a.ndomains))

\* the results of the lookups, in the order of the list given to gather, up to
\* the first one that is a CancelledError (367-375)
RECURSIVE Collected(_, _)
Collected(children, c) ==
    IF c > Len(children) \/ children[c].pc = "cancelled"
    THEN <<>>
    ELSE children[c].result \o Collected(children, c + 1)

\* faulty variant of AllLookupsOver: the wait ends with the first lookup that ends
AnyLookupOver(children) == \E c \in DOMAIN children : ChildOver(children[c])

\* 365: asyncio.gather resumes its awaiter when every one of its tasks is done
AllLookupsOver(children) == \A c \in DOMAIN children : ChildOver(children[c])

\* gather is over (365-388).  When the wait was cancelled, or a lookup ended in a
\* CancelledError, control is in the handler at 376: `task.done()` on a coroutine
\* object raises AttributeError, which the handler at 393 turns into a record
GatherResume(j) ==
    LET t == task[j]
        ch == t.domain_tasks
        k == t.i + 1
    IN  /\ t.pc = "gather"
        /\ AllLookupsOver(ch)
        /\ IF t.must_cancel
           THEN Apply(j, LoopHead(j, research_tasks, [t EXCEPT !.must_cancel = FALSE],
                                  t.i + 1, Append(t.results, KeywordError(k))))
           ELSE IF \E c \in DOMAIN ch : ch[c].pc = "cancelled"
           THEN Apply(j, LoopHead(j, research_tasks, t, t.i + 1,
                                  Append(t.results \o Collected(ch, 1), KeywordError(k))))
           ELSE IF cancelled_event[j]
           THEN Apply(j, Out(research_tasks, AExit(t, "CancelledError")))
           ELSE Apply(j, Out(research_tasks,
                             [t EXCEPT !.pc = "keyword_delay",
                                       !.results = @ \o Collected(ch, 1),
                                       !.domain_tasks = <<>>]))

\* the 1 s delay after a keyword is over (388)
KeywordDelayDone(j) ==
    LET t == task[j]
    IN  /\ t.pc = "keyword_delay" /\ ~t.must_cancel
        /\ Apply(j, LoopHead(j, research_tasks, t, t.i + 1, t.results))

\* CancelledError is thrown into the task at the await it is suspended at (other
\* than gather): 390-392 re-raise it, and control leaves the `async with`
TaskCancelled(j) ==
    LET t == task[j]
    IN  /\ t.must_cancel
        /\ t.pc \in {"search_get", "search_sleep", "search_retry", "keyword_delay"}
        /\ Apply(j, Out(research_tasks,
                        AExit([t EXCEPT !.must_cancel = FALSE], "CancelledError")))

\* __aexit__ (research_backend.py 60-63): session.close() returns or raises; an
\* exception raised here replaces the one in flight; then the handlers of
\* run_research (app.py 162-171)
SessionClose(j, close_fails) ==
    LET t0 == task[j]
        t == [t0 EXCEPT !.session_fault = @ \/ close_fails]
        exc == IF close_fails THEN "Exception" ELSE t0.exc
    IN  /\ t0.pc = "session_close"
        /\ Apply(j, CASE exc = "none" -> Out(research_tasks, Finished(t, "returned"))
                      [] exc = "CancelledError" -> BoundaryCancelled(j, research_tasks, t)
                      [] OTHER -> BoundaryException(j, research_tasks, t))

\* faulty variant of CancelChildren: the lookups are left to run
CancelNoChildren(t) == t.domain_tasks

\* ---- cancel_task (app.py 346-368), the request accepted
\* 362: task_obj.cancel() cancels the gather the task waits in, and gather
\* cancels every lookup that is not over
CancelChildren(t) ==
    IF t.pc = "gather"
    THEN [c \in DOMAIN t.domain_tasks |->
            IF ChildOver(t.domain_tasks[c]) THEN t.domain_tasks[c]
            ELSE [t.domain_tasks[c] EXCEPT !.cancel = TRUE]]
    ELSE t.domain_tasks

\* faulty variant of CancelAccepted: a job that has not started is cancelled too
CancelAcceptedEarly(j) == research_tasks[j].status \in {"starting", "running"}

\* app.py 353: `if task["status"] == "running"`
CancelAccepted(j) == research_tasks[j].status = "running"

CancelTask(j) ==
    /\ Present(j)
    /\ CancelAccepted(j)
    /\ cancelled_event' = [cancelled_event EXCEPT ![j] = TRUE]
    /\ task' = IF j \in research_task_objects /\ task[j].pc # "done"
               THEN [task EXCEPT ![j].must_cancel = TRUE,
                                 ![j].domain_tasks = CancelChildren(task[j])]
               ELSE task
    /\ research_tasks' = [research_tasks EXCEPT ![j].status = "cancelled",
                                                ![j].error = CancelMsg]
    /\ reply' = Reply("cancel_task", j, 200, [message |-> "Task cancelled successfully"])
    /\ UNCHANGED <<research_task_objects, request, expired, lookup, search_call,
                   terminal_expired, age_call, extract_call, filter_call>>

\* faulty variant of TasksToRemove: failed and cancelled jobs are never swept
TasksToRemoveCompletedOnly ==
    {j \in DOMAIN research_tasks : research_tasks[j].status = "completed" /\ j \in expired}

\* faulty variant of TasksToRemove: the status of the entry is not looked at
TasksToRemoveAnyStatus == {j \in DOMAIN research_tasks : j \in expired}

\* ---- cleanup_old_tasks (app.py 32-47), run by periodic_cleanup and health_check
TasksToRemove ==
    {j \in DOMAIN research_tasks :
        research_tasks[j].status \in {"completed", "error", "cancelled"} /\ j \in expired}

Restrict(f, S) == [k \in S |-> f[k]]

CleanupOldTasks ==
    /\ TasksToRemove # {}
    /\ research_tasks' = Restrict(research_tasks, DOMAIN research_tasks \ TasksToRemove)
    /\ research_task_objects' = research_task_objects \ TasksToRemove
    /\ UNCHANGED <<cancelled_event, request, expired, task, lookup, search_call, reply, terminal_expired, age_call, extract_call, filter_call>>

\* the clock passes created_at + 3600 s of job j
TimePasses(j) ==
    /\ j \in Submitted /\ j \notin expired
    /\ expired' = expired \cup {j}
    /\ UNCHANGED <<research_tasks, research_task_objects, cancelled_event, request, task, lookup, search_call, reply, terminal_expired, age_call, extract_call, filter_call>>

Next ==
    \/ \E j \in JobIds, n \in 0 .. MaxKeywords, m \in 0 .. MaxDomains : StartResearch(j, n, m)
    \/ \E j \in Submitted, f \in BOOLEAN : TaskStart(j, f)
    \/ \E j \in Submitted, a \in SearchAnswers : SearchResponse(j, a)
    \/ \E j \in Submitted : SearchSleepDone(j)
    \/ \E j \in Submitted, a \in SearchAnswers : SearchRetryResponse(j, a)
    \/ \E j \in Submitted : \E c \in DOMAIN task[j].domain_tasks : ChildStart(j, c)
    \/ \E j \in Submitted : \E c \in DOMAIN task[j].domain_tasks : ChildAcquire(j, c)
    \/ \E j \in Submitted : \E c \in DOMAIN task[j].domain_tasks, a \in WhoisAnswers :
          WhoisResponse(j, c, a)
    \/ \E j \in Submitted : \E c \in DOMAIN task[j].domain_tasks : BackoffDone(j, c)
    \/ \E j \in Submitted : \E c \in DOMAIN task[j].domain_tasks : PaceDone(j, c)
    \/ \E j \in Submitted : \E c \in DOMAIN task[j].domain_tasks : ChildCancelled(j, c)
    \/ \E j \in Submitted : GatherResume(j)
    \/ \E j \in Submitted : KeywordDelayDone(j)
    \/ \E j \in Submitted : TaskCancelled(j)
    \/ \E j \in Submitted, f \in BOOLEAN : SessionClose(j, f)
    \/ \E j \in Submitted : CancelTask(j)
    \/ \E j \in Submitted : TimePasses(j)
    \/ CleanupOldTasks

Spec == Init /\ [][Next]_vars

\* ---- one WHOIS lookup and one search call, each driven by every sequence of
\* upstream answers, with the requests and answers recorded
JobVars == <<research_tasks, research_task_objects, cancelled_event, request, expired, task>>

\* get_whois_data 166-198 and process_domain 275-297 on the answer to a POST
LookupAnswer(a) ==
    LET step == WhoisStep(lookup.attempt, a)
        heard == [lookup EXCEPT !.answers = Append(@, a.code)]
    IN  /\ lookup.pc = "whois"
        /\ lookup' =
             IF step.kind = "sleep"
             THEN [heard EXCEPT !.pc = "backoff", !.delays = Append(@, Delay(lookup.attempt))]
             ELSE [heard EXCEPT !.pc = "returned", !.ret = step.value,
                                !.record = <<process_domain(1, DomainName[1], WhoisValue(step.value), ClockNow)>>]
        /\ UNCHANGED <<JobVars, search_call, reply, terminal_expired, age_call, extract_call, filter_call>>

\* the backoff delay is over: the loop at 164 goes on, or is exhausted (200)
LookupBackoffDone ==
    /\ lookup.pc = "backoff"
    /\ lookup' =
         IF HasNextAttempt(lookup.attempt)
         THEN [Post(lookup) EXCEPT !.attempt = @ + 1, !.requests = @ + 1]
         ELSE [lookup EXCEPT !.pc = "returned", !.ret = "None",
                             !.record = <<process_domain(1, DomainName[1], WhoisValue("None"), ClockNow)>>]
    /\ UNCHANGED <<JobVars, search_call, reply, terminal_expired, age_call, extract_call, filter_call>>

\* search_google 79-99 on the answer to the first GET
CallSearchAnswer(a) ==
    LET v == SearchFirst(a)
        heard == [search_call EXCEPT !.answers = Append(@, a.code)]
    IN  /\ search_call.pc = "search_get"
        /\ search_call' =
             IF v = "retry"
             THEN [heard EXCEPT !.pc = "search_sleep"]
             ELSE [heard EXCEPT !.pc = "returned", !.ret = v]
        /\ UNCHANGED <<JobVars, lookup, reply, terminal_expired, age_call, extract_call, filter_call>>

CallSearchSleepDone ==
    /\ search_call.pc = "search_sleep"
    /\ search_call' = [search_call EXCEPT !.pc = "search_retry", !.requests = @ + 1]
    /\ UNCHANGED <<JobVars, lookup, reply, terminal_expired, age_call, extract_call, filter_call>>

CallSearchRetryAnswer(a) ==
    /\ search_call.pc = "search_retry"
    /\ search_call' = [search_call EXCEPT !.pc = "returned", !.ret = SearchRetry(a),
                                          !.answers = Append(@, a.code)]
    /\ UNCHANGED <<JobVars, lookup, reply, terminal_expired, age_call, extract_call, filter_call>>

NextCalls ==
    \/ \E a \in WhoisAnswers : LookupAnswer(a)
    \/ LookupBackoffDone
    \/ \E a \in SearchAnswers : CallSearchAnswer(a)
    \/ CallSearchSleepDone
    \/ \E a \in SearchAnswers : CallSearchRetryAnswer(a)

SpecCalls == Init /\ [][NextCalls]_vars

\* ---- the request handlers that answer without starting or stopping a job, the
\* sweep and the clock, on jobs of at most ApiKeywords keywords
Answer(r) ==
    /\ reply' = r
    /\ UNCHANGED <<JobVars, lookup, search_call, terminal_expired, age_call, extract_call, filter_call>>

\* get_task_status (app.py 180-186)
GetTaskStatus(j) ==
    IF ~Present(j)
    THEN Answer(Reply("get_task_status", j, 404, [detail |-> "Task not found"]))
    ELSE Answer(Reply("get_task_status", j, 200, research_tasks[j]))

\* faulty variant of ResultsReady: the results of any finished job are handed out
ResultsReadyWhenTerminal(j) == research_tasks[j].status \in Terminal

\* app.py 196: `if task["status"] != "completed"` does not hold
ResultsReady(j) == research_tasks[j].status = "completed"

\* get_results (app.py 189-199)
GetResults(j) ==
    IF ~Present(j)
    THEN Answer(Reply("get_results", j, 404, [detail |-> "Task not found"]))
    ELSE IF ~ResultsReady(j)
    THEN Answer(Reply("get_results", j, 400, [detail |-> "Task not completed"]))
    ELSE Answer(Reply("get_results", j, 200, [results |-> research_tasks[j].results]))

\* cancel_task (app.py 346-368), the request refused (349-350, 367-368)
CancelTaskRejected(j) ==
    /\ ~(Present(j) /\ CancelAccepted(j))
    /\ IF ~Present(j)
       THEN Answer(Reply("cancel_task", j, 404, [detail |-> "Task not found"]))
       ELSE Answer(Reply("cancel_task", j, 400, [detail |-> "Task is not running"]))

\* the clock passes 3600 s after job j reached a terminal status, which is no
\* earlier than created_at + 3600 s
TerminalTimePasses(j) ==
    /\ Present(j) /\ research_tasks[j].status \in Terminal
    /\ j \in expired /\ j \notin terminal_expired
    /\ terminal_expired' = terminal_expired \cup {j}
    /\ UNCHANGED <<JobVars, lookup, search_call, reply, age_call, extract_call, filter_call>>

\* health_check (app.py 371-381): the sweep, then the counts of the registry
HealthCheck ==
    LET left == DOMAIN research_tasks \ TasksToRemove
        running == {j \in left : research_tasks[j].status = "running"}
    IN  /\ research_tasks' = Restrict(research_tasks, left)
        /\ research_task_objects' = research_task_objects \ TasksToRemove
        /\ reply' = Reply("health_check", 0, 200,
                          [active_tasks |-> Cardinality(running),
                           total_tasks |-> Cardinality(left)])
        /\ UNCHANGED <<cancelled_event, request, expired, task, lookup, search_call,
                       terminal_expired, age_call, extract_call, filter_call>>

\* (no lookup waits for the semaphore when a job starts fewer than three)
NextApi ==
    \/ \E j \in JobIds, n \in 0 .. ApiKeywords, m \in 0 .. ApiDomains : StartResearch(j, n, m)
    \/ \E j \in Submitted, f \in BOOLEAN : TaskStart(j, f)
    \/ \E j \in Submitted, a \in SearchAnswers : SearchResponse(j, a)
    \/ \E j \in Submitted : SearchSleepDone(j)
    \/ \E j \in Submitted, a \in SearchAnswers : SearchRetryResponse(j, a)
    \/ \E j \in Submitted : \E c \in DOMAIN task[j].domain_tasks : ChildStart(j, c)
    \/ \E j \in Submitted : \E c \in DOMAIN task[j].domain_tasks, a \in WhoisAnswers :
          WhoisResponse(j, c, a)
    \/ \E j \in Submitted : \E c \in DOMAIN task[j].domain_tasks : BackoffDone(j, c)
    \/ \E j \in Submitted : \E c \in DOMAIN task[j].domain_tasks : PaceDone(j, c)
    \/ \E j \in Submitted : \E c \in DOMAIN task[j].domain_tasks : ChildCancelled(j, c)
    \/ \E j \in Submitted : GatherResume(j)
    \/ \E j \in Submitted : KeywordDelayDone(j)
    \/ \E j \in Submitted : TaskCancelled(j)
    \/ \E j \in Submitted, f \in BOOLEAN : SessionClose(j, f)
    \/ \E j \in Submitted : CancelTask(j)
    \/ \E j \in JobIds : CancelTaskRejected(j)
    \/ \E j \in JobIds : GetTaskStatus(j)
    \/ \E j \in JobIds : GetResults(j)
    \/ \E j \in Submitted : TimePasses(j)
    \/ \E j \in Submitted : TerminalTimePasses(j)
    \/ CleanupOldTasks
    \/ HealthCheck

SpecApi == Init /\ [][NextApi]_vars

\* ---- the job under a fair scheduler: every coroutine that can run is run, and
\* every request that is in flight is answered or times out
JobStep(j) ==
    \/ \E f \in BOOLEAN : TaskStart(j, f)
    \/ \E a \in SearchAnswers : SearchResponse(j, a)
    \/ SearchSleepDone(j)
    \/ \E a \in SearchAnswers : SearchRetryResponse(j, a)
    \/ \E c \in DOMAIN task[j].domain_tasks : ChildStart(j, c)
    \/ \E c \in DOMAIN task[j].domain_tasks : ChildAcquire(j, c)
    \/ \E c \in DOMAIN task[j].domain_tasks, a \in WhoisAnswers : WhoisResponse(j, c, a)
    \/ \E c \in DOMAIN task[j].domain_tasks : BackoffDone(j, c)
    \/ \E c \in DOMAIN task[j].domain_tasks : PaceDone(j, c)
    \/ \E c \in DOMAIN task[j].domain_tasks : ChildCancelled(j, c)
    \/ GatherResume(j)
    \/ KeywordDelayDone(j)
    \/ TaskCancelled(j)
    \/ \E f \in BOOLEAN : SessionClose(j, f)

NextLive ==
    \/ \E j \in JobIds, n \in 0 .. ApiKeywords, m \in 0 .. MaxDomains : StartResearch(j, n, m)
    \/ \E j \in Submitted : JobStep(j)
    \/ \E j \in Submitted : CancelTask(j)
    \/ \E j \in Submitted : TimePasses(j)
    \/ CleanupOldTasks

SpecLive ==
    Init /\ [][NextLive]_vars /\ \A j \in JobIds : WF_vars(j \in Submitted /\ JobStep(j))

\* ---- two jobs in the registry at once, each of at most ApiKeywords keywords
\* and ApiDomains domains, with cancel requests
TwoJobs == {1, 2}

\* the steps taken on behalf of job j: its submission, the steps of its task
\* and lookups, a cancel request for it
OnBehalfOf(j) ==
    \/ \E n \in 0 .. ApiKeywords, m \in 0 .. ApiDomains : StartResearch(j, n, m)
    \/ j \in Submitted /\ \E f \in BOOLEAN : TaskStart(j, f)
    \/ j \in Submitted /\ \E a \in SearchAnswers : SearchResponse(j, a)
    \/ j \in Submitted /\ SearchSleepDone(j)
    \/ j \in Submitted /\ \E a \in SearchAnswers : SearchRetryResponse(j, a)
    \/ j \in Submitted /\ \E c \in DOMAIN task[j].domain_tasks : ChildStart(j, c)
    \/ j \in Submitted /\ \E c \in DOMAIN task[j].domain_tasks, a \in WhoisAnswers :
                              WhoisResponse(j, c, a)
    \/ j \in Submitted /\ \E c \in DOMAIN task[j].domain_tasks : BackoffDone(j, c)
    \/ j \in Submitted /\ \E c \in DOMAIN task[j].domain_tasks : PaceDone(j, c)
    \/ j \in Submitted /\ \E c \in DOMAIN task[j].domain_tasks : ChildCancelled(j, c)
    \/ j \in Submitted /\ GatherResume(j)
    \/ j \in Submitted /\ KeywordDelayDone(j)
    \/ j \in Submitted /\ TaskCancelled(j)
    \/ j \in Submitted /\ \E f \in BOOLEAN : SessionClose(j, f)
    \/ j \in Submitted /\ CancelTask(j)

NextJobs == \E j \in TwoJobs : OnBehalfOf(j)

SpecJobs == Init /\ [][NextJobs]_vars

\* ---- apply_advanced_filter (research_backend.py 404-427) and its handler
\* filter_results (app.py 202-246)
MaxRecords == 3
default_max_age == 365

\* 409-412: the keys of keyword_groups, in the order of their insertion
RECURSIVE Keys(_, _)
Keys(results, seen) ==
    IF results = <<>>
    THEN seen
    ELSE IF \E i \in DOMAIN seen : seen[i] = Head(results).keyword
         THEN Keys(Tail(results), seen)
         ELSE Keys(Tail(results), Append(seen, Head(results).keyword))

\* 409-412: keyword_groups[keyword]
keyword_groups(results, keyword) == SelectSeq(results, LAMBDA r : r.keyword = keyword)

\* faulty variant of InAgeRange: the -1 marker is not excluded
InAgeRangeWithMarker(r, min_age, max_age) == min_age <= r.age_days /\ r.age_days <= max_age

\* 420: the condition of the comprehension
InAgeRange(r, min_age, max_age) ==
    r.age_days # -1 /\ min_age <= r.age_days /\ r.age_days <= max_age

\* 418-421
valid_domains(keyword_results, min_age, max_age) ==
    SelectSeq(keyword_results, LAMBDA r : InAgeRange(r, min_age, max_age))

\* 416-425: the loop over keyword_groups.items()
RECURSIVE FilterGroups(_, _, _, _, _)
FilterGroups(keys, results, min_age, max_age, min_domains) ==
    IF keys = <<>>
    THEN <<>>
    ELSE LET valid == valid_domains(keyword_groups(results, Head(keys)), min_age, max_age)
         IN  (IF Len(valid) >= min_domains THEN valid ELSE <<>>)
               \o FilterGroups(Tail(keys), results, min_age, max_age, min_domains)

apply_advanced_filter(results, min_age, max_age, min_domains) ==
    FilterGroups(Keys(results, <<>>), results, min_age, max_age, min_domains)

\* the ages and age limits of a direct call, the -1 marker among them
FilterAges == {-1, 0, 1}

\* the records of a direct call
FilterRecords ==
    {DomainData(k, d, "N/A", a, "Success", <<>>) :
        k \in 1 .. MaxKeywords, d \in {DomainName[1], DomainName[2]}, a \in FilterAges}

\* apply_advanced_filter is called with a list of at most MaxRecords records;
\* `results` is the caller's list as it is after the call
ApplyAdvancedFilter ==
    /\ filter_call = NoFilterCall /\ Submitted = {}
    /\ \E n \in 0 .. MaxRecords, min_age \in FilterAges, max_age \in FilterAges,
          min_domains \in 0 .. MaxRecords :
          \E results \in [1 .. n -> FilterRecords] :
              filter_call' =
                 [pc |-> "returned", results |-> results, min_age |-> min_age,
                  max_age |-> max_age, min_domains |-> min_domains,
                  filtered_results |->
                      apply_advanced_filter(results, min_age, max_age, min_domains)]
    /\ UNCHANGED <<JobVars, lookup, search_call, reply, terminal_expired, age_call,
                   extract_call>>

\* app.py 213-224: the stored dicts as DomainData objects
FromDict(r) ==
    DomainData(r.keyword, r.domain, r.creation_date, r.age_days, r.status, r.age_display)

\* app.py 234-244: the dicts of the answer, which carry no age_display
ToDict(r) ==
    [keyword |-> r.keyword, domain |-> r.domain, creation_date |-> r.creation_date,
     age_days |-> r.age_days, status |-> r.status]

FromDicts(results) == [i \in DOMAIN results |-> FromDict(results[i])]
ToDicts(results) == [i \in DOMAIN results |-> ToDict(results[i])]

\* app.py 226-246
Filtered(results, min_age, max_age, min_domains, enable_filtering) ==
    ToDicts(IF enable_filtering
            THEN apply_advanced_filter(FromDicts(results), min_age, max_age, min_domains)
            ELSE FromDicts(results))

\* filter_results (app.py 202-246)
FilterResults(j, min_age, max_age, min_domains, enable_filtering) ==
    IF ~Present(j)
    THEN Answer(Reply("filter_results", j, 404, [detail |-> "Task not found"]))
    ELSE IF research_tasks[j].status # "completed"
    THEN Answer(Reply("filter_results", j, 400, [detail |-> "Task not completed"]))
    ELSE Answer(Reply("filter_results", j, 200,
                      [filtered_results |->
                          Filtered(research_tasks[j].results, min_age, max_age,
                                   min_domains, enable_filtering)]))

\* the age limits of a filter request: the default, or the age of a stored record
StoredAges(j) ==
    IF Present(j)
    THEN {research_tasks[j].results[i].age_days : i \in DOMAIN research_tasks[j].results}
    ELSE {}

\* a behaviour is one direct call of apply_advanced_filter, or the life of a job
\* of at most ApiKeywords keywords and ApiDomains domains with filter requests
NextFilter ==
    \/ ApplyAdvancedFilter
    \/ filter_call = NoFilterCall /\ \E j \in JobIds : OnBehalfOf(j)
    \/ /\ filter_call = NoFilterCall
       /\ \E j \in JobIds, min_age \in {-1, 0}, min_domains \in 0 .. ApiDomains + 1,
             enable_filtering \in BOOLEAN :
             \E max_age \in {default_max_age} \cup StoredAges(j) :
                 FilterResults(j, min_age, max_age, min_domains, enable_filtering)

SpecFilter == Init /\ [][NextFilter]_vars

\* ======================= properties =======================
Entry(j) == research_tasks[j]
Statuses(recs) == {recs[x].status : x \in 1 .. Len(recs)}

\* C1: a job's results list is non-empty only if its status is "completed"; no
\* entry with status starting, running, cancelled or error exposes a record.
\* The code breaks it: the commit (app.py 148-160) lies inside the `async with`,
\* and an exception out of session.close() afterwards sets status "error".
C1_ResultsOnlyWhenCompleted ==
    \A j \in DOMAIN research_tasks :
        Entry(j).results # <<>> => Entry(j).status = "completed"

\* C2: status moves only from starting (through running) onward and from running
\* to completed, error or cancelled; once it is terminal no step changes the
\* entry's status, results or error (the entry may only be deleted).
\* The code breaks it: completed turns into error when session.close() raises.
C2_TerminalIsFinal ==
    [][\A j \in DOMAIN research_tasks \cap DOMAIN research_tasks' :
         LET a == research_tasks[j]
             b == research_tasks'[j]
         IN  /\ b.status = "starting" => a.status = "starting"
             /\ a.status = "running" => b.status \in {"running"} \cup Terminal
             /\ a.status \in Terminal =>
                    /\ b.status = a.status
                    /\ b.results = a.results
                    /\ b.error = a.error]_vars

\* C3: from the step in which a cancel request is accepted, whatever the task
\* was waiting on, the entry is "cancelled" with an empty results list, in every
\* later state in which it exists: never completed, never error, no record
\* collected before the cancel committed.
C3_CancelledKeepsNoResults ==
    \A j \in Submitted :
        (cancelled_event[j] /\ Present(j)) =>
            /\ Entry(j).status = "cancelled"
            /\ Entry(j).error = CancelMsg
            /\ Entry(j).results = <<>>

\* the cancel came while the lookups of the last keyword were gathered; the
\* handler at 376 failed, research_keywords returned normally, the job is over
C3_Witness ==
    \E j \in Submitted :
        /\ cancelled_event[j] /\ Present(j)
        /\ task[j].pc = "done" /\ task[j].exit_via = "returned"
        /\ Entry(j).status = "cancelled" /\ Entry(j).results = <<>>

\* C4: when an exception other than CancelledError reaches the handler at
\* app.py 165 with the cancel flag set, the entry ends "cancelled" with the
\* error text "Task cancelled by user"; status "error" goes with an unset flag.
C4_ExceptionWhileCancelled ==
    \A j \in Submitted :
        Present(j) =>
            /\ (task[j].exit_via = "exception_handler" /\ cancelled_event[j]) =>
                   (Entry(j).status = "cancelled" /\ Entry(j).error = CancelMsg)
            /\ Entry(j).status = "error" => ~cancelled_event[j]

\* cancelled, and then session.close() raised while the task was unwinding
C4_Witness ==
    \E j \in Submitted :
        /\ Present(j) /\ cancelled_event[j]
        /\ task[j].exit_via = "exception_handler" /\ task[j].session_fault
        /\ Entry(j).status = "cancelled"

\* C5: at no moment are more than 2 lookups of a job inside the section guarded
\* by the semaphore (request in flight, backing off, or in the 0.5 s delay).
C5_AtMostTwoInside ==
    \A j \in Submitted :
        Cardinality({c \in DOMAIN task[j].domain_tasks :
                        task[j].domain_tasks[c].pc \in {"whois", "backoff", "pace"}}) <= 2

\* three lookups were started: two have a request in flight, the third waits
C5_Witness ==
    \E j \in Submitted :
        /\ Len(task[j].domain_tasks) = 3
        /\ task[j].domain_tasks[1].pc = "whois"
        /\ task[j].domain_tasks[2].pc = "whois"
        /\ task[j].domain_tasks[3].pc = "waitsem"

Retryable == {"429", "timeout"}

\* C6: one get_whois_data call issues at most 4 requests; request k+1 is only
\* issued after answer k was a 429 or a timeout; when the 4th answer is a 429
\* or a timeout the call returns None, and it never raises.
C6_AtMostFourRequests ==
    /\ lookup.requests <= 4
    /\ \A k \in 1 .. Len(lookup.answers) :
          k < lookup.requests => lookup.answers[k] \in Retryable
    /\ (Len(lookup.answers) = 4 /\ lookup.answers[4] \in Retryable) =>
          (lookup.pc = "returned" /\ lookup.ret = "None")
    /\ lookup.ret # "raise"

C6_Witness ==
    /\ lookup.requests = 4 /\ Len(lookup.answers) = 4
    /\ lookup.answers[4] = "429"
    /\ lookup.pc = "returned" /\ lookup.ret = "None"

Fatal == {"403", "500", "error"}

\* C7: on a 403, any other status that is neither 200 nor 429, or an exception
\* that is not a timeout, on whichever attempt, get_whois_data returns None at
\* once, with no request after that answer, and the record is "WHOIS Failed".
C7_FatalAnswerEndsLookup ==
    LET n == Len(lookup.answers)
    IN  (n > 0 /\ lookup.answers[n] \in Fatal) =>
            /\ lookup.pc = "returned" /\ lookup.ret = "None"
            /\ lookup.requests = n
            /\ Len(lookup.record) = 1
            /\ lookup.record[1].status = "WHOIS Failed"
            /\ lookup.record[1].age_days = -1

\* a 429, a retry, then a 403
C7_Witness ==
    /\ lookup.answers = <<"429", "403">>
    /\ lookup.pc = "returned" /\ lookup.requests = 2
    /\ lookup.record[1].status = "WHOIS Failed"

\* C8: one search_google call issues at most 2 GETs; the second one is issued
\* exactly when the first answer was a 429; a second answer that is not a 200
\* gives None; the call ends with the body or None, it never raises.
C8_SearchAtMostTwoGets ==
    LET n == Len(search_call.answers)
    IN  /\ search_call.requests <= 2
        /\ search_call.requests = 2 => search_call.answers[1] = "429"
        /\ (n > 0 /\ search_call.answers[1] = "429") =>
              (search_call.pc = "search_sleep" \/ search_call.requests = 2)
        /\ (n = 2 /\ search_call.answers[2] # "200") => search_call.ret = "None"
        /\ search_call.pc = "returned" => search_call.ret \in {"body", "None"}
        /\ search_call.ret # "raise"

\* a 429, then a second answer that is not a 200
C8_Witness ==
    /\ search_call.answers = <<"429", "500">>
    /\ search_call.requests = 2
    /\ search_call.pc = "returned" /\ search_call.ret = "None"

\* the records of the job as far as they are known: the list of
\* research_keywords while it runs, the committed list once completed
Records(j) ==
    IF task[j].pc = "search_get" THEN task[j].results ELSE Entry(j).results

NotApplicable(k, status) ==
    [keyword |-> k, domain |-> "N/A", creation_date |-> "N/A", age_days |-> -1,
     status |-> status, age_display |-> <<>>]

\* C9: when the search of keyword k gave no result, or a result with no domain,
\* the job holds exactly one record for k: domain "N/A", creationDate "N/A",
\* ageDays -1 and status "Search Failed", respectively "No Domains Found"; no
\* lookup was created for k; and the loop is at the search of keyword k+1, or
\* past the last keyword with the list committed.
C9_OneRecordForFailedSearch ==
    \A j \in Submitted :
        LET t == task[j]
            k == t.i
            recs == Records(j)
        IN  (/\ t.search_ret \in {"None", "falsy", "no domains"}
             /\ \/ t.pc = "search_get"
                \/ Present(j) /\ Entry(j).status = "completed")
            =>
            /\ recs # <<>>
            /\ recs[Len(recs)] =
                  NotApplicable(k, IF t.search_ret = "no domains"
                                   THEN "No Domains Found" ELSE "Search Failed")
            /\ Cardinality({x \in 1 .. Len(recs) : recs[x].keyword = k}) = 1
            /\ t.domain_tasks = <<>>
            /\ t.pc = "search_get" \/ k = request[j].keywords

\* the first search failed, the second search is in flight
C9_Witness ==
    \E j \in Submitted :
        /\ task[j].pc = "search_get" /\ task[j].i = 1
        /\ task[j].search_ret = "None"
        /\ task[j].results = <<NotApplicable(1, "Search Failed")>>

\* C10: a job that is never cancelled, and whose session is opened and closed
\* without a fault, is never in status "error", whatever the search and WHOIS
\* upstreams answer, and when its task is over the status is "completed".
C10_NeverCancelledCompletes ==
    \A j \in Submitted :
        (Present(j) /\ ~cancelled_event[j] /\ ~task[j].session_fault) =>
            /\ Entry(j).status # "error"
            /\ Entry(j).status # "cancelled"
            /\ task[j].pc = "done" =>
                  (Entry(j).status = "completed" /\ task[j].exit_via = "returned")

\* a finished job whose search failed for one keyword and whose lookup failed
\* for another
C10_Witness ==
    \E j \in Submitted :
        /\ Present(j) /\ ~cancelled_event[j] /\ ~task[j].session_fault
        /\ task[j].pc = "done"
        /\ Entry(j).status = "completed"
        /\ {"Search Failed", "WHOIS Failed"} \subseteq Statuses(Entry(j).results)

\* C11: a job submitted with no keyword, whose session is opened and closed
\* without a fault, is completed with an empty results list from its task's
\* first step on, and at no time has a search or a lookup of it been issued.
C11_EmptyJobCompletes ==
    \A j \in Submitted :
        request[j].keywords = 0 =>
            /\ task[j].pc \in {"created", "session_close", "done"}
            /\ task[j].domain_tasks = <<>>
            /\ (Present(j) /\ task[j].pc # "created" /\ ~task[j].session_fault) =>
                  /\ Entry(j).status = "completed"
                  /\ Entry(j).results = <<>>
                  /\ Entry(j).progress = 0

\* the task of a job without keywords is over
C11_Witness ==
    \E j \in Submitted :
        /\ request[j].keywords = 0 /\ Present(j)
        /\ task[j].pc = "done" /\ task[j].exit_via = "returned"
        /\ Entry(j).status = "completed" /\ Entry(j).results = <<>>

\* the response r is that of handler op for job j, with status code and detail text
ReplyIs(r, op, j, code) == r.op = op /\ r.id = j /\ r.code = code
Refused(r, op, j, detail) == ReplyIs(r, op, j, 400) /\ r.body = [detail |-> detail]
NotFound(r, op, j) == ReplyIs(r, op, j, 404) /\ r.body = [detail |-> "Task not found"]

SearchInFlight(j) == task[j].pc \in {"search_get", "search_sleep", "search_retry"}
CancelHandled(j) == CancelTask(j) \/ CancelTaskRejected(j)

\* C12 as stated: a job of at least one keyword whose cancel request came before
\* its first keyword issues no search.  A refused cancel request followed by a
\* search in flight can only have been refused in status starting.
C12_CancelBeforeStartStopsJob ==
    \A j \in Submitted :
        (/\ request[j].keywords >= 1
         /\ Refused(reply, "cancel_task", j, "Task is not running")
         /\ ~cancelled_event[j])
        => ~SearchInFlight(j)

\* C12 amended: a cancel request that arrives while the job is in status
\* starting is refused with "Task is not running" and changes neither the entry,
\* the flag nor the task, so the job goes on to its first search; a request that
\* arrives in status running is accepted, and from then on the entry is
\* cancelled with an empty results list.
C12_CancelOnlyWhenRunning ==
    [][\A j \in JobIds :
         /\ (CancelHandled(j) /\ Present(j) /\ research_tasks[j].status = "starting") =>
               /\ Refused(reply', "cancel_task", j, "Task is not running")
               /\ UNCHANGED JobVars
         /\ (CancelHandled(j) /\ Present(j) /\ research_tasks[j].status = "running") =>
               /\ reply'.code = 200
               /\ cancelled_event'[j]
               /\ research_tasks'[j].status = "cancelled"
               /\ research_tasks'[j].results = <<>>
         /\ (j \in Submitted /\ cancelled_event[j] /\ Present(j)) =>
               (research_tasks[j].status = "cancelled" /\ research_tasks[j].results = <<>>)
      ]_vars

\* the cancel request was refused while the job was starting; its search is out
C12_Witness ==
    \E j \in Submitted :
        /\ request[j].keywords >= 1
        /\ Refused(reply, "cancel_task", j, "Task is not running")
        /\ Present(j) /\ Entry(j).status = "running"
        /\ task[j].pc = "search_get"

\* C13: get_results hands out the results exactly when the status is completed
\* and otherwise answers 400 "Task not completed"; cancel_task takes effect
\* exactly when the status is running and otherwise answers 400 "Task is not
\* running"; a refusing handler changes neither the registry nor the task.
C13_QueriesRefuseWithoutEffect ==
    [][\A j \in JobIds :
         /\ (GetResults(j) /\ Present(j)) =>
               /\ UNCHANGED JobVars
               /\ IF research_tasks[j].status = "completed"
                  THEN /\ ReplyIs(reply', "get_results", j, 200)
                       /\ reply'.body = [results |-> research_tasks[j].results]
                  ELSE Refused(reply', "get_results", j, "Task not completed")
         /\ (CancelHandled(j) /\ Present(j)) =>
               IF research_tasks[j].status = "running"
               THEN /\ reply'.code = 200
                    /\ research_tasks'[j].status = "cancelled"
                    /\ cancelled_event'[j]
               ELSE /\ Refused(reply', "cancel_task", j, "Task is not running")
                    /\ UNCHANGED JobVars
      ]_vars

\* the results of a cancelled job were asked for and refused
C13_Witness ==
    \E j \in Submitted :
        /\ Present(j) /\ Entry(j).status = "cancelled"
        /\ Refused(reply, "get_results", j, "Task not completed")

\* C14: after a run of the sweep no job in a terminal status and created more
\* than 3600 s ago is in the registry, and a status query for a job that is
\* not in the registry answers 404; every job created less than 3600 s ago is
\* kept by the sweep, entry unchanged, and a status query returns its entry.
C14_SweepRetention ==
    [][/\ (CleanupOldTasks \/ HealthCheck) =>
             \A j \in Submitted :
                 /\ j \in DOMAIN research_tasks' =>
                       ~(research_tasks'[j].status \in Terminal /\ j \in expired)
                 /\ (Present(j) /\ j \notin expired) =>
                       (j \in DOMAIN research_tasks' /\ research_tasks'[j] = research_tasks[j])
       /\ \A j \in JobIds :
             GetTaskStatus(j) =>
                 IF Present(j)
                 THEN /\ ReplyIs(reply', "get_task_status", j, 200)
                      /\ reply'.body = research_tasks[j]
                 ELSE NotFound(reply', "get_task_status", j)
      ]_vars

\* a job was swept, and the status query for it answered 404
C14_Witness ==
    \E j \in Submitted :
        /\ ~Present(j) /\ j \in expired
        /\ NotFound(reply, "get_task_status", j)

\* C15: a job is deleted only when more than 3600 s have passed since it reached
\* its terminal status.  The code breaks it: the sweep measures from created_at
\* (app.py 39-40), so a job that ran for more than an hour is deleted by the
\* first sweep after it ends.
C15_DeletedOnlyLongAfterTerminal ==
    [][\A j \in DOMAIN research_tasks :
         j \notin DOMAIN research_tasks' => j \in terminal_expired]_vars

\* C16: on a completed job, status and results queries change nothing and keep
\* returning the same status and results, whatever else happens in between,
\* as long as the entry is not deleted.  The code breaks it through the bug of
\* C2: a failing session close turns the completed entry into an error entry.
C16_CompletedJobReadsTheSame ==
    [][\A j \in DOMAIN research_tasks :
         research_tasks[j].status = "completed" =>
            /\ (GetTaskStatus(j) \/ GetResults(j)) =>
                  (UNCHANGED JobVars /\ reply'.code = 200)
            /\ j \in DOMAIN research_tasks' =>
                  /\ research_tasks'[j].status = "completed"
                  /\ research_tasks'[j].results = research_tasks[j].results
      ]_vars

\* ---- one process_domain evaluation observed alone
\* the creation dates the registry answers with, around the clock's date
CreationDates ==
    {DateTime(1997, 9, 15, 4), DateTime(2024, 2, 29, 12), DateTime(2025, 9, 14, 12),
     DateTime(2025, 9, 15, 4), DateTime(2026, 1, 1, 0)}

\* the times at which datetime.now() is read (241)
Nows == {DateTime(2025, 9, 15, 0), DateTime(2025, 9, 15, 4), DateTime(2025, 9, 15, 12)}

\* the texts of a creation date: with a time, without one, with a UTC offset
DateStrings ==
    {DateString("datetime", dt, 0) : dt \in CreationDates}
      \cup {DateString("date", [dt EXCEPT !.h = 0], 0) : dt \in CreationDates}
      \cup {DateString("offset", dt, 5) : dt \in CreationDates}
      \cup {Unparseable, EmptyString}

\* the lists of at most MaxListLen creation dates
DateLists == UNION {[1 .. n -> DateStrings] : n \in 0 .. MaxListLen}

WhoisBodies ==
    {NoResult(kind) : kind \in {"falsy", "number", "noresult", "badresult"}}
      \cup {Json("result", Absent)}
      \cup {Json("result", OneString(str)) : str \in DateStrings}
      \cup {Json("result", List(items)) : items \in DateLists}

\* 271-297: get_whois_data ends with None or a body, the record is built at once
ProcessDomain ==
    /\ age_call = NoAgeCall
    /\ \E ret \in {WhoisNone} \cup {WhoisBody(data) : data \in WhoisBodies}, now \in Nows :
        /\ age_call' = [pc |-> "returned", ret |-> ret, current_date |-> now,
                        record |-> process_domain(1, DomainName[1], ret, now)]
        /\ UNCHANGED <<JobVars, lookup, search_call, reply, terminal_expired, extract_call, filter_call>>

\* 202-269: calculate_domain_age alone, on a body that is not falsy (278)
CalculateDomainAge ==
    /\ age_call = NoAgeCall
    /\ \E data \in WhoisBodies, now \in Nows :
        /\ age_call' = [pc |-> "calculated", whois_data |-> data, current_date |-> now,
                        age |-> calculate_domain_age(data, now)]
        /\ UNCHANGED <<JobVars, lookup, search_call, reply, terminal_expired, extract_call, filter_call>>

NextAge == ProcessDomain \/ CalculateDomainAge

SpecAge == Init /\ [][NextAge]_vars

\* ---- extract_domains (research_backend.py 101-144) observed alone.
\* A string is a sequence of characters; the hosts are written with a lower-case
\* letter, an upper-case letter and the dot.
HostChars == {"w", "W", "."}

LowerChar(ch) == IF ch = "W" THEN "w" ELSE ch

\* 129: str.lower()
lower(str) == [x \in 1 .. Len(str) |-> LowerChar(str[x])]

\* str.startswith(prefix)
startswith(str, prefix) ==
    Len(str) >= Len(prefix) /\ SubSeq(str, 1, Len(prefix)) = prefix

WwwDot == <<"w", "w", "w", ".">>

\* a URL: with a scheme ("http://host/path") or without one ("host/path")
Url(scheme, host) == [scheme |-> scheme, host |-> host]

\* 128-129: urlparse(url).netloc is the host after "//", and empty without it
netloc(url) == IF url.scheme THEN url.host ELSE <<>>

\* 132-133: one leading "www." is removed
StripWww(str) == IF startswith(str, WwwDot) THEN SubSeq(str, 5, Len(str)) ELSE str

\* 136: `domain and '.' in domain and not domain.startswith('.')`
ValidDomain(domain) ==
    /\ Len(domain) > 0
    /\ \E x \in 1 .. Len(domain) : domain[x] = "."
    /\ domain[1] # "."

\* 128-137: what one URL adds to the set
DomainsOf(url) ==
    LET domain == StripWww(lower(netloc(url)))
    IN  IF ValidDomain(domain) THEN {domain} ELSE {}

\* a search answer: falsy, or an object whose 'results' and 'organic' lists hold
\* items with one key ("url", "link" or another one) and a URL under it
Item(key, url) == [key |-> key, url |-> url]
SearchResults(falsy, results, organic) ==
    [falsy |-> falsy, results |-> results, organic |-> organic]

\* 112-123: the URLs collected: url or link of 'results', url of 'organic'
Collect(items, keys) ==
    {items[x].url : x \in {y \in 1 .. Len(items) : items[y].key \in keys}}

urls(search_results) ==
    Collect(search_results.results, {"url", "link"})
      \cup Collect(search_results.organic, {"url"})

extract_domains(search_results) ==
    IF search_results.falsy
    THEN {}
    ELSE UNION {DomainsOf(url) : url \in urls(search_results)}

\* an answer with one item, in the list `place`, under the key `key`
OneItem(place, key, url) ==
    IF place = "results"
    THEN SearchResults(FALSE, <<Item(key, url)>>, <<>>)
    ELSE SearchResults(FALSE, <<>>, <<Item(key, url)>>)

Returns(search_results) ==
    /\ extract_call' = [pc |-> "returned", search_results |-> search_results,
                        domains |-> extract_domains(search_results)]
    /\ UNCHANGED <<JobVars, lookup, search_call, reply, terminal_expired, age_call,
                   filter_call>>

\* extract_domains is applied to a falsy answer, or to an answer with one item
\* whose URL has a host of at most MaxHostLen characters
ExtractDomains ==
    /\ extract_call = NoExtractCall
    /\ \/ Returns(SearchResults(TRUE, <<>>, <<>>))
       \/ \E place \in {"results", "organic"}, key \in {"url", "link", "title"},
             scheme \in BOOLEAN, n \in 0 .. MaxHostLen :
             \E host \in [1 .. n -> HostChars] :
                 Returns(OneItem(place, key, Url(scheme, host)))

NextExtract == ExtractDomains

SpecExtract == Init /\ [][NextExtract]_vars

KeywordsAscend(recs) ==
    \A x, y \in 1 .. Len(recs) : x < y => recs[x].keyword <= recs[y].keyword

\* C17: keywords are taken in submission order, one index at a time; the wait
\* for the lookups of a keyword ends only when every one of them has ended, and
\* a search is issued only with no lookup outstanding; in the list being built
\* and in the committed list the records of keyword i form one block that
\* precedes every record of keyword i+1.
C17_KeywordsInOrder ==
    [][\A j \in Submitted :
         LET t == task[j]
             u == task'[j]
         IN  /\ u.i \in {t.i, t.i + 1}
             /\ (t.pc = "gather" /\ u.pc # "gather") =>
                   \A c \in DOMAIN t.domain_tasks :
                       t.domain_tasks[c].pc \in {"done", "cancelled"}
             /\ (u.pc = "search_get" /\ (t.pc # "search_get" \/ u.i # t.i)) =>
                   /\ t.pc \in {"created", "search_get", "search_retry", "keyword_delay"}
                   /\ u.i = IF t.pc = "created" THEN 0 ELSE t.i + 1
                   /\ u.domain_tasks = <<>>
             /\ KeywordsAscend(t.results)
             /\ Present(j) => KeywordsAscend(Entry(j).results)
      ]_vars

\* two lookups of the first keyword and a record of the second are committed
C17_Witness ==
    \E j \in Submitted :
        /\ Present(j) /\ Entry(j).status = "completed"
        /\ Len(Entry(j).results) >= 3
        /\ Entry(j).results[1].keyword = 1 /\ Entry(j).results[1].domain = "d1"
        /\ Entry(j).results[2].keyword = 1 /\ Entry(j).results[2].domain = "d2"
        /\ Entry(j).results[Len(Entry(j).results)].keyword = 2

Taxonomy ==
    {"Search Failed", "No Domains Found", "WHOIS Failed", "Age Calculation Failed",
     "Success", "Error"}

\* C18: every record in the results of a completed job has a status of the
\* taxonomy Search Failed, No Domains Found, WHOIS Failed, Age Calculation
\* Failed, Success, Error; a "Keyword Error" record is never committed.
C18_CommittedStatuses ==
    \A j \in DOMAIN research_tasks :
        Entry(j).status = "completed" =>
            /\ Statuses(Entry(j).results) \subseteq Taxonomy
            /\ "Keyword Error" \notin Statuses(Entry(j).results)

\* a completed job with a record of each kind the upstreams can cause
C18_Witness ==
    \E j \in DOMAIN research_tasks :
        /\ Entry(j).status = "completed"
        /\ {"No Domains Found", "WHOIS Failed", "Age Calculation Failed", "Success"}
              \subseteq Statuses(Entry(j).results)

AgeRecorded == age_call.pc = "returned"

\* C19: every record has ageDays >= 0 or ageDays = -1; a Success record has
\* ageDays >= 0 and a creationDate other than N/A, also when the creation date
\* of the WHOIS answer is after the current time; a record of any other status
\* has ageDays = -1, creationDate N/A and an empty ageDisplay.
C19_AgeNonNegativeOrUnknown ==
    AgeRecorded =>
        LET r == age_call.record
        IN  /\ r.age_days >= 0 \/ r.age_days = -1
            /\ r.status = "Success" => r.age_days >= 0 /\ r.creation_date # "N/A"
            /\ r.status # "Success" =>
                 r.age_days = -1 /\ r.creation_date = "N/A" /\ r.age_display = <<>>

\* the answer's creation_date is the text 1997-09-15 04:00:00 and the clock is
\* read on 2025-09-15
Since1997On20250915 ==
    /\ AgeRecorded
    /\ age_call.ret = WhoisBody(RegisteredSince1997)
    /\ age_call.current_date.y = 2025
    /\ age_call.current_date.m = 9
    /\ age_call.current_date.d = 15

DisplayRule(r) ==
    r.age_display = IF r.age_days \div 365 > 0
                    THEN <<r.age_days \div 365, r.age_days % 365>>
                    ELSE <<r.age_days>>

\* C20 as stated: for creation_date 1997-09-15 04:00:00 and the clock on
\* 2025-09-15 the record has ageDays = 10227 and ageDisplay "28 years, 2 days",
\* ageDisplay being "<ageDays // 365> years, <ageDays % 365> days" when
\* ageDays // 365 > 0 and "<ageDays> days" otherwise.
C20_AgeOfExample ==
    Since1997On20250915 =>
        /\ age_call.record.age_days = 10227
        /\ age_call.record.age_display = <<28, 2>>
        /\ DisplayRule(age_call.record)

\* C20 amended: with the clock at 04:00:00 or later on 2025-09-15 the record
\* has ageDays = 10227 and ageDisplay "28 years, 7 days"; with the clock
\* earlier that day, ageDays = 10226 and ageDisplay "28 years, 6 days"; the
\* display follows the stated rule.
C20_AgeOfExampleByHour ==
    Since1997On20250915 =>
        /\ age_call.record.status = "Success"
        /\ age_call.record.creation_date = "1997-09-15 04:00:00"
        /\ age_call.current_date.h >= 4 =>
             age_call.record.age_days = 10227 /\ age_call.record.age_display = <<28, 7>>
        /\ age_call.current_date.h < 4 =>
             age_call.record.age_days = 10226 /\ age_call.record.age_display = <<28, 6>>
        /\ DisplayRule(age_call.record)

\* the example evaluated at midnight of 2025-09-15
C20_Witness ==
    /\ Since1997On20250915
    /\ age_call.current_date.h = 0
    /\ age_call.record.age_days = 10226

\* C21: for the same current time, calculate_domain_age returns for a body
\* whose creation_date is a non-empty list exactly what it returns for the body
\* whose creation_date is the first element of that list as a single string;
\* the later elements of the list have no influence.
C21_ListMeansFirstElement ==
    (/\ age_call.pc = "calculated"
     /\ age_call.whois_data.kind = "result"
     /\ age_call.whois_data.creation_date.kind = "list"
     /\ age_call.whois_data.creation_date.items # <<>>)
    => age_call.age =
          calculate_domain_age(
              Json("result", OneString(age_call.whois_data.creation_date.items[1])),
              age_call.current_date)

\* a list whose first element is a date and whose second element is another one
C21_Witness ==
    /\ age_call.pc = "calculated"
    /\ age_call.whois_data.kind = "result"
    /\ age_call.whois_data.creation_date.kind = "list"
    /\ Len(age_call.whois_data.creation_date.items) = 2
    /\ age_call.whois_data.creation_date.items[1] =
          DateString("datetime", DateTime(1997, 9, 15, 4), 0)
    /\ age_call.whois_data.creation_date.items[2] =
          DateString("date", DateTime(2026, 1, 1, 0), 0)
    /\ age_call.age.creation_date = "1997-09-15 04:00:00"

\* the answer holds the single URL http://<host>/... under results[0].url
OnlyUrl(host) ==
    /\ extract_call.pc = "returned"
    /\ extract_call.search_results =
          SearchResults(FALSE, <<Item("url", Url(TRUE, host))>>, <<>>)

\* C22: every domain in the set extract_domains returns is lower-case,
\* non-empty, holds a dot, does not start with a dot and does not start with
\* "www."; a URL whose host has no dot or is empty after "www." is stripped adds
\* nothing (http://w gives the empty set, http://www.Ww.WW gives {ww.ww}).
\* The code breaks it: only one "www." is stripped (132-133), so the host
\* www.www.w gives the domain www.w.
C22_ExtractedDomainsNormalized ==
    extract_call.pc = "returned" =>
        /\ \A d \in extract_call.domains :
              /\ d = lower(d)
              /\ Len(d) > 0
              /\ \E x \in 1 .. Len(d) : d[x] = "."
              /\ d[1] # "."
              /\ ~startswith(d, WwwDot)
        /\ OnlyUrl(<<"w">>) => extract_call.domains = {}
        /\ OnlyUrl(<<"w", "w", "w", ".">>) => extract_call.domains = {}
        /\ OnlyUrl(<<"w", "w", "w", ".", "W", "w", ".", "W">>) =>
              extract_call.domains = {<<"w", "w", ".", "w">>}

\* C23: a timeout of an upstream request is retried while the call has a retry
\* left, in the search call (one retry) as in the WHOIS call (three retries),
\* and only a timeout of the last request makes the call return None.
\* The code breaks it for the search: search_google returns None on the first
\* timeout (94-96) without a second GET.
C23_TimeoutIsRetried ==
    /\ \A k \in 1 .. Len(lookup.answers) :
          lookup.answers[k] = "timeout" =>
              IF k <= max_retries
              THEN lookup.requests > k \/ lookup.pc = "backoff"
              ELSE lookup.pc = "returned" /\ lookup.ret = "None"
    /\ \A k \in 1 .. Len(search_call.answers) :
          search_call.answers[k] = "timeout" =>
              IF k = 1
              THEN search_call.requests = 2 \/ search_call.pc = "search_sleep"
              ELSE search_call.pc = "returned" /\ search_call.ret = "None"

RECURSIVE Sum(_)
Sum(seq) == IF seq = <<>> THEN 0 ELSE seq[1] + Sum(Tail(seq))

\* C25: in one WHOIS lookup the delay before retry k is 2 * 2^(k-1) seconds,
\* that is 2, 4 and 8 seconds for k = 1, 2, 3; a delay is always followed by a
\* request, none is taken after the fourth answer, and the delays of one
\* lookup add up to at most 14 seconds.
C25_BackoffDelays ==
    /\ Len(lookup.delays) <= 3
    /\ \A k \in 1 .. Len(lookup.delays) : lookup.delays[k] = 2 * 2 ^ (k - 1)
    /\ lookup.delays \in {<<>>, <<2>>, <<2, 4>>, <<2, 4, 8>>}
    /\ Len(lookup.delays) =
          IF lookup.pc = "backoff" THEN lookup.requests ELSE lookup.requests - 1
    /\ Len(lookup.answers) = 4 => lookup.pc = "returned"
    /\ Sum(lookup.delays) <= 14

\* four answers that ask for a retry: three delays, 14 seconds, no fourth one
C25_Witness ==
    /\ lookup.answers = <<"429", "timeout", "429", "timeout">>
    /\ lookup.delays = <<2, 4, 8>>
    /\ lookup.pc = "returned"

\* what the caller sees of a job in a terminal status: the committed list when
\* completed, an error text when failed or cancelled
TerminalIsExplained(j) ==
    /\ Entry(j).status = "completed" =>
          /\ task[j].pc \in {"session_close", "done"}
          /\ request[j].max_domains_per_keyword > 0 =>
                \A k \in 1 .. request[j].keywords :
                    \E x \in 1 .. Len(Entry(j).results) : Entry(j).results[x].keyword = k
    /\ Entry(j).status \in {"error", "cancelled"} => Entry(j).error \notin {"None", ""}

NewWhoisCall(j, c) ==
    /\ task'[j].domain_tasks[c].pc = "whois"
    /\ ~(/\ c \in DOMAIN task[j].domain_tasks
         /\ task[j].domain_tasks[c].pc = "whois"
         /\ task[j].domain_tasks[c].attempt = task'[j].domain_tasks[c].attempt)

\* C26: once the cancel flag of a job is set, no lookup of the job issues a
\* WHOIS request: not a lookup that had passed its entry check and waits for a
\* slot, not one that is backing off before a retry, not one not yet started.
C26_NoWhoisCallAfterCancel ==
    [][\A j \in Submitted :
         cancelled_event[j] =>
             \A c \in DOMAIN task'[j].domain_tasks : ~NewWhoisCall(j, c)]_vars

\* the flag is set while two lookups hold the slots and the third waits for one
C26_Witness ==
    \E j \in Submitted :
        /\ cancelled_event[j]
        /\ task[j].pc = "gather"
        /\ Len(task[j].domain_tasks) = 3
        /\ task[j].domain_tasks[3].pc = "waitsem"
        /\ task[j].domain_tasks[3].cancel
        /\ task[j].domain_semaphore = 1

\* C27: while the status of a job is running, its entry is written by the steps
\* of the job's own task only: every other step (a request handler, the sweep,
\* the clock) leaves the entry in the registry and unchanged.
\* The code breaks it: cancel_task writes status and error of the running entry
\* (app.py 364-365) while the job's task has not yet run again.
C27_RunningEntryOwnedByTask ==
    [][\A j \in DOMAIN research_tasks :
         (research_tasks[j].status = "running" /\ ~JobStep(j)) =>
             /\ j \in DOMAIN research_tasks'
             /\ research_tasks'[j] = research_tasks[j]]_vars

\* the positions of the records of keyword k that name a domain
DomainRecords(recs, k) ==
    {x \in 1 .. Len(recs) : recs[x].keyword = k /\ recs[x].domain # "N/A"}

CappedPerKeyword(j, recs) ==
    \A k \in 1 .. request[j].keywords :
        /\ Cardinality(DomainRecords(recs, k)) <= request[j].max_domains_per_keyword
        /\ \A x, y \in DomainRecords(recs, k) : recs[x].domain = recs[y].domain => x = y

\* C28: with max_domains_per_keyword >= 0, a keyword has at most that many
\* lookups, one per selected domain, and at most that many records naming a
\* domain, no domain twice, in the list being built and in the committed list.
C28_DomainsCappedPerKeyword ==
    \A j \in Submitted :
        request[j].max_domains_per_keyword >= 0 =>
            /\ Len(task[j].domain_tasks) <= request[j].max_domains_per_keyword
            /\ CappedPerKeyword(j, task[j].results)
            /\ Present(j) => CappedPerKeyword(j, Entry(j).results)

\* a cap of one: each of the two keywords has one lookup's record committed
C28_Witness ==
    \E j \in Submitted :
        /\ request[j].max_domains_per_keyword = 1 /\ request[j].keywords = 2
        /\ Present(j) /\ Entry(j).status = "completed"
        /\ Cardinality(DomainRecords(Entry(j).results, 1)) = 1
        /\ Cardinality(DomainRecords(Entry(j).results, 2)) = 1

\* C29: the search of the next keyword is issued only when the 1 s delay after
\* the previous keyword is over, whether that keyword ended with lookups, with
\* "Search Failed" or with "No Domains Found".
\* The code breaks it: after a failed or empty search the loop continues at
\* once (`continue` at 343 and 351), and the delay at 388 is skipped.
C29_DelayBetweenSearches ==
    [][\A j \in Submitted :
         (task'[j].pc = "search_get" /\ task'[j].i = task[j].i + 1) =>
             task[j].pc = "keyword_delay"]_vars

\* C30: with several jobs in the registry, a step taken on behalf of one job
\* (its submission, a step of its task or of one of its lookups, a cancel
\* request for it) leaves the registry entry and the cancel flag of every other
\* job as they were; and each job has its own semaphore: a step of one job
\* leaves the slot count of every other job unchanged, and a job with no more
\* lookups than slots never has a lookup waiting, whatever the other job holds.
OtherJobUntouched(k) ==
    /\ (k \in DOMAIN research_tasks') = (k \in DOMAIN research_tasks)
    /\ k \in DOMAIN research_tasks => research_tasks'[k] = research_tasks[k]
    /\ (k \in DOMAIN cancelled_event') = (k \in DOMAIN cancelled_event)
    /\ k \in DOMAIN cancelled_event => cancelled_event'[k] = cancelled_event[k]
    /\ (k \in DOMAIN task') = (k \in DOMAIN task)
    /\ k \in DOMAIN task => task'[k].domain_semaphore = task[k].domain_semaphore

NeverWaitsForOthers(j) ==
    Len(task[j].domain_tasks) <= SemaphoreSlots =>
        \A c \in DOMAIN task[j].domain_tasks : task[j].domain_tasks[c].pc # "waitsem"

C30_JobsAreIsolated ==
    /\ [][\A j \in TwoJobs :
             OnBehalfOf(j) => \A k \in TwoJobs \ {j} : OtherJobUntouched(k)]_vars
    /\ [](\A j \in Submitted : NeverWaitsForOthers(j))

\* both jobs have a WHOIS call in flight, each holding one slot of its own
\* semaphore, and job 2 is cancelled while job 1 goes on running
C30_Witness ==
    /\ Submitted = TwoJobs
    /\ \A j \in TwoJobs :
          /\ Len(task[j].domain_tasks) = 1 /\ task[j].domain_tasks[1].pc = "whois"
          /\ task[j].domain_semaphore = SemaphoreSlots - 1
    /\ research_tasks[1].status = "running" /\ ~cancelled_event[1]
    /\ research_tasks[2].status = "cancelled" /\ cancelled_event[2]

\* C31: the sweep (periodic, or run by the health probe) never deletes a job
\* whose status is starting or running, however long ago it was created; an
\* entry that leaves the job registry had status completed, error or cancelled,
\* and it leaves the task-object registry in the same step, which loses no
\* other job.
C31_SweepKeepsLiveJobs ==
    [][\A j \in DOMAIN research_tasks :
         /\ research_tasks[j].status \in {"starting", "running"} =>
               ((CleanupOldTasks \/ HealthCheck) =>
                   (j \in DOMAIN research_tasks' /\ research_tasks'[j] = research_tasks[j]
                    /\ (j \in research_task_objects' <=> j \in research_task_objects)))
         /\ j \notin DOMAIN research_tasks' =>
               /\ research_tasks[j].status \in {"completed", "error", "cancelled"}
               /\ j \notin research_task_objects'
         /\ j \in DOMAIN research_tasks' =>
               (j \in research_task_objects => j \in research_task_objects')
      ]_vars

\* the health probe has run its sweep over a running job created more than an
\* hour ago, and the job is still counted as active
C31_Witness ==
    \E j \in Submitted :
        /\ j \in expired /\ Present(j) /\ research_tasks[j].status = "running"
        /\ j \in research_task_objects
        /\ ReplyIs(reply, "health_check", 0, 200)
        /\ reply.body.active_tasks = 1

\* C32: an entry is deleted from the registry only after the task of its job
\* has finished executing, so the task never reads or writes an entry the sweep
\* has deleted.  The code breaks it: cancel_task makes the entry terminal while
\* the task is still unwinding (app.py 364), the sweep may delete it at once if
\* the job was created more than an hour ago, and the task's handler then
\* indexes research_tasks[task_id] (app.py 163).
C32_DeletedOnlyAfterTaskEnds ==
    \A j \in Submitted :
        /\ ~Present(j) => task[j].pc = "done"
        /\ task[j].exit_via # "crashed" /\ task[j].exc # "KeyError"

\* C33: for every job in the registry 0 <= progress <= total; progress never
\* decreases; while the job runs and its task is working on a keyword, progress
\* is the index of that keyword; a completed job has progress = total; and once
\* a cancel request has been accepted, progress and domains_processed no longer
\* change.
AtKeyword(t) == t.pc \in {"search_get", "search_sleep", "search_retry", "gather", "keyword_delay"}

C33_ProgressTracksKeywords ==
    /\ [](\A j \in Submitted :
            Present(j) =>
                /\ 0 <= Entry(j).progress /\ Entry(j).progress <= Entry(j).total
                /\ (Entry(j).status = "running" /\ AtKeyword(task[j])) =>
                       Entry(j).progress = task[j].i
                /\ Entry(j).status = "completed" => Entry(j).progress = Entry(j).total)
    /\ [][\A j \in Submitted :
             (Present(j) /\ j \in DOMAIN research_tasks') =>
                 /\ research_tasks'[j].progress >= research_tasks[j].progress
                 /\ cancelled_event[j] =>
                       /\ research_tasks'[j].progress = research_tasks[j].progress
                       /\ research_tasks'[j].domains_processed =
                             research_tasks[j].domains_processed]_vars

\* a cancelled job that had reached its second keyword and counted lookups
C33_Witness ==
    \E j \in Submitted :
        /\ Present(j) /\ cancelled_event[j] /\ Entry(j).status = "cancelled"
        /\ Entry(j).total = 2 /\ Entry(j).progress = 1
        /\ Entry(j).domains_processed >= 1
        /\ task[j].pc = "done"

\* C34: domains_processed never exceeds the estimate len(keywords) *
\* max_domains_per_keyword; it grows by one exactly in the step in which a
\* lookup gets its record (no cancellation), a lookup ends normally only after
\* such a step, and in that step the lookup holds its semaphore slot before and
\* after.
Counted(j, c) ==
    /\ c \in DOMAIN task[j].domain_tasks /\ c \in DOMAIN task'[j].domain_tasks
    /\ task[j].domain_tasks[c].pc # "pace" /\ task'[j].domain_tasks[c].pc = "pace"

EndsNormally(j, c) ==
    /\ c \in DOMAIN task[j].domain_tasks /\ c \in DOMAIN task'[j].domain_tasks
    /\ task[j].domain_tasks[c].pc # "done" /\ task'[j].domain_tasks[c].pc = "done"

C34_DomainsProcessedCounts ==
    /\ [](\A j \in Submitted :
            (Present(j) /\ Entry(j).status # "starting") =>
                /\ Entry(j).total_domains_estimated =
                      request[j].keywords * request[j].max_domains_per_keyword
                /\ 0 <= Entry(j).domains_processed
                /\ Entry(j).domains_processed <= Entry(j).total_domains_estimated)
    /\ [][\A j \in Submitted :
             (Present(j) /\ j \in DOMAIN research_tasks' /\ Entry(j).status # "starting") =>
                 /\ research_tasks'[j].domains_processed # Entry(j).domains_processed =>
                       /\ research_tasks'[j].domains_processed = Entry(j).domains_processed + 1
                       /\ ~cancelled_event[j]
                       /\ \E c \in DOMAIN task[j].domain_tasks :
                             /\ Counted(j, c)
                             /\ InsideSemaphore(task[j].domain_tasks[c])
                             /\ InsideSemaphore(task'[j].domain_tasks[c])
                             /\ task'[j].domain_semaphore = task[j].domain_semaphore
                 /\ \A c \in DOMAIN task[j].domain_tasks :
                       /\ Counted(j, c) =>
                             research_tasks'[j].domains_processed = Entry(j).domains_processed + 1
                       /\ EndsNormally(j, c) => task[j].domain_tasks[c].pc = "pace"]_vars

\* a completed job of two keywords and three lookups each has counted all six
C34_Witness ==
    \E j \in Submitted :
        /\ Present(j) /\ Entry(j).status = "completed"
        /\ request[j].keywords = 2 /\ request[j].max_domains_per_keyword = 3
        /\ Entry(j).domains_processed = 6
        /\ Entry(j).total_domains_estimated = 6

\* C35: apply_advanced_filter returns exactly the records with age_days # -1
\* and min_age <= age_days <= max_age of the keywords that have at least
\* min_domains such records, in their original order within each keyword;
\* the caller's list is as it was; filtering the output again with the same
\* parameters returns it unchanged; and a filter request leaves the stored
\* results of the job (and the rest of its entry) unchanged and answers with the
\* filtered records (as dicts without age_display).
Kept(results, k, lo, hi) ==
    SelectSeq(results,
              LAMBDA r : r.keyword = k /\ r.age_days # -1 /\ lo <= r.age_days /\ r.age_days <= hi)

Expected(results, out, lo, hi, min_domains) ==
    /\ \A i \in DOMAIN out : \E n \in DOMAIN results : results[n].keyword = out[i].keyword
    /\ \A n \in DOMAIN results :
          LET k == results[n].keyword
          IN  SelectSeq(out, LAMBDA r : r.keyword = k) =
                 IF Len(Kept(results, k, lo, hi)) >= min_domains
                 THEN Kept(results, k, lo, hi)
                 ELSE <<>>

C35_FilterSelectsByAgeAndCount ==
    /\ [](filter_call.pc = "returned" =>
            LET c == filter_call
            IN  /\ Expected(c.results, c.filtered_results, c.min_age, c.max_age, c.min_domains)
                /\ apply_advanced_filter(c.filtered_results, c.min_age, c.max_age,
                                         c.min_domains) = c.filtered_results)
    /\ [][\A j \in JobIds, min_age \in {-1, 0}, min_domains \in 0 .. ApiDomains + 1 :
             \A max_age \in {default_max_age} \cup StoredAges(j) :
                 FilterResults(j, min_age, max_age, min_domains, TRUE) =>
                     /\ UNCHANGED JobVars
                     /\ (Present(j) /\ Entry(j).status = "completed") =>
                           /\ ReplyIs(reply', "filter_results", j, 200)
                           /\ Expected(ToDicts(Entry(j).results),
                                       reply'.body.filtered_results,
                                       min_age, max_age, min_domains)]_vars

\* a direct call on a list whose keywords alternate: keyword 1 has two records
\* in range and is kept in its order, keyword 2 has one and is dropped
C35_Witness ==
    /\ filter_call.pc = "returned"
    /\ Len(filter_call.results) = 3 /\ filter_call.min_domains = 2
    /\ filter_call.results[1].keyword = 1 /\ filter_call.results[2].keyword = 2
    /\ filter_call.results[3].keyword = 1
    /\ filter_call.results[2].age_days = 0
    /\ filter_call.results[1].domain # filter_call.results[3].domain
    /\ filter_call.filtered_results = <<filter_call.results[1], filter_call.results[3]>>

====
